---- MODULE Spec2Model ----
(***************************************************************************)
(* Verification model of secure-signify-vault: the cryptographic core      *)
(* (src/src/lib/crypto.ts, class DigitalSignatureSystem) and the React     *)
(* components that drive it.                                               *)
(*                                                                         *)
(* JavaScript strings are sequences of UTF-16 code units (naturals below   *)
(* 65536); byte arrays are sequences of naturals below 256.  A call that   *)
(* can throw returns a record [ok |-> BOOLEAN, v |-> value]; ok = FALSE    *)
(* is the raised error.                                                    *)
(***************************************************************************)
EXTENDS Integers, Sequences, FiniteSets, TLC

VARIABLES
  now,                    \* the wall clock (Date.now), a time value
  ticks,                  \* how often the clock has advanced
  tsIssued,               \* the latest token createTimestamp returned, with what it embedded
  tsLast,                 \* the latest timestamp call and its outcome
  keyPairs,               \* the key pairs generateKeyPair has returned, in order
  sigIssued,              \* the latest SignatureResult signData returned, with its inputs
  sigLast,                \* the latest signature call and its outcome
  hashLast,               \* the latest calculateHash call and its outcome
  certLast,               \* the latest generateSelfSignedCert call and its outcome
  \* CertificateManager
  certificates,           \* the certificate store, in order
  newCertSubject,         \* the text of the subject input
  validityDays,           \* the number the validity input put into state
  selectedCert,           \* the certificate whose details are shown, or null
  importCertPem,          \* the text of the import area
  cmKeyPair,              \* keyPair: the key pair of the latest generation, or null
  cmIsGenerating,         \* isGenerating
  cmPending,              \* the generateCertificate call that awaits its key pair
  cmObjects,              \* the number of certificate objects created so far
  cmToast,                \* the title of the latest toast
  \* key export and import
  keyExported,            \* the latest PEM text an export returned, and its key pair
  keyImported,            \* the latest key an import returned
  keyLast,                \* the latest key call and its outcome
  statusLast,             \* the latest rendering of a certificate's status badges
  cmDownload,             \* the name of the file exportCertificate made the browser save last
  coreLast,               \* the latest call of a core operation, its steps and its outcome
  compareHash1,           \* HashCalculator: the first hash to compare, as typed
  compareHash2,           \* HashCalculator: the second hash to compare, as typed
  comparisonResult,       \* HashCalculator: the displayed result of the comparison
  hcToast,                \* HashCalculator: the title of the latest toast
  compareLast,            \* the latest compareHashes and the texts it compared
  kmKeyPair,              \* KeyManagement: the key pair held, NoKeyPair for null
  kmKeySize,              \* KeyManagement: the selected key size
  kmIsGenerating,         \* KeyManagement: the busy flag
  publicKeyPem,           \* KeyManagement: the displayed public key text
  privateKeyPem,          \* KeyManagement: the displayed private key text
  importedPublicKey,      \* KeyManagement: the public key text typed for import
  importedPrivateKey,     \* KeyManagement: the private key text typed for import
  kmToast,                \* KeyManagement: the title of the latest toast
  kmGenerating,           \* KeyManagement: the generateKeyPair call that awaits the provider
  kmImporting,            \* KeyManagement: the importKeys call that awaits the provider
  kmGenerated,            \* KeyManagement: how many key pairs the provider generated
  documentText,           \* SignatureOperations: the document text to sign
  soPrivateKeyPem,        \* SignatureOperations: the private key text of the signing form
  soPublicKeyPem,         \* SignatureOperations: the public key text of the verification form
  signatureResult,        \* SignatureOperations: the displayed SignatureResult or null
  verificationSignature,  \* SignatureOperations: the signature text to verify
  verificationDocument,   \* SignatureOperations: the document text to verify
  verificationResult,     \* SignatureOperations: the displayed verification result or null
  soIsProcessing,         \* SignatureOperations: the busy flag
  soToast,                \* SignatureOperations: the title of the latest toast
  soPending,              \* SignatureOperations: the call that awaits the core
  tcDocumentText,         \* TimestampService: the document text to timestamp
  timestampToken,         \* TimestampService: the displayed new token
  verifyToken,            \* TimestampService: the token text to verify
  timestamps,             \* TimestampService: the history of timestamp records
  tcVerificationResult,   \* TimestampService: the displayed verification result or null
  tcIsProcessing,         \* TimestampService: the busy flag
  tcToast,                \* TimestampService: the title of the latest toast
  inputText,              \* HashCalculator: the text to hash
  selectedAlgorithm,      \* HashCalculator: the selected algorithm
  hashResults,            \* HashCalculator: the list of hash results
  hcIsProcessing,         \* HashCalculator: the busy flag
  hcPending               \* HashCalculator: the call that awaits the core

clockVars == << now, ticks >>
tsVars == << tsIssued, tsLast >>
sigVars == << keyPairs, sigIssued, sigLast >>
hashVars == << hashLast >>
certVars == << certLast >>
cmVars ==
  << certificates, newCertSubject, validityDays, selectedCert, importCertPem,
     cmKeyPair, cmIsGenerating, cmPending, cmObjects, cmToast >>
keyVars == << keyExported, keyImported, keyLast >>
statusVars == << statusLast >>
downloadVars == << cmDownload >>
coreVars == << coreLast >>
hcVars ==
  << compareHash1, compareHash2, comparisonResult, hcToast, compareLast >>
kmVars ==
  << kmKeyPair, kmKeySize, kmIsGenerating, publicKeyPem, privateKeyPem,
     importedPublicKey, importedPrivateKey, kmToast, kmGenerating, kmImporting,
     kmGenerated >>
soVars ==
  << documentText, soPrivateKeyPem, soPublicKeyPem, signatureResult,
     verificationSignature, verificationDocument, verificationResult,
     soIsProcessing, soToast, soPending >>
tcVars ==
  << tcDocumentText, timestampToken, verifyToken, timestamps,
     tcVerificationResult, tcIsProcessing, tcToast >>
hrVars ==
  << inputText, selectedAlgorithm, hashResults, hcIsProcessing, hcPending >>
vars ==
  << now, ticks, tsIssued, tsLast, keyPairs, sigIssued, sigLast, hashLast,
     certLast, certificates, newCertSubject, validityDays, selectedCert,
     importCertPem, cmKeyPair, cmIsGenerating, cmPending, cmObjects, cmToast,
     keyExported, keyImported, keyLast, statusLast, cmDownload, coreLast,
     compareHash1, compareHash2, comparisonResult, hcToast, compareLast,
     kmKeyPair, kmKeySize, kmIsGenerating, publicKeyPem, privateKeyPem,
     importedPublicKey, importedPrivateKey, kmToast, kmGenerating, kmImporting,
     kmGenerated, documentText, soPrivateKeyPem, soPublicKeyPem,
     signatureResult, verificationSignature, verificationDocument,
     verificationResult, soIsProcessing, soToast, soPending, tcDocumentText,
     timestampToken, verifyToken, timestamps, tcVerificationResult,
     tcIsProcessing, tcToast, inputText, selectedAlgorithm, hashResults,
     hcIsProcessing, hcPending >>

\* What the calls of one part of the program leave alone.
otherThanTs ==
  << sigVars, hashVars, certVars, cmVars, keyVars, statusVars, downloadVars,
     coreVars, hcVars, kmVars, soVars, tcVars, hrVars >>
otherThanSig ==
  << tsVars, hashVars, certVars, cmVars, keyVars, statusVars, downloadVars,
     coreVars, hcVars, kmVars, soVars, tcVars, hrVars >>
otherThanHash ==
  << tsVars, sigVars, certVars, cmVars, keyVars, statusVars, downloadVars,
     coreVars, hcVars, kmVars, soVars, tcVars, hrVars >>
otherThanCert ==
  << tsVars, sigVars, hashVars, cmVars, keyVars, statusVars, downloadVars,
     coreVars, hcVars, kmVars, soVars, tcVars, hrVars >>
otherThanCm ==
  << tsVars, sigVars, hashVars, certVars, keyVars, statusVars, downloadVars,
     coreVars, hcVars, kmVars, soVars, tcVars, hrVars >>
otherThanStatus ==
  << tsVars, sigVars, hashVars, certVars, cmVars, keyVars, downloadVars,
     coreVars, hcVars, kmVars, soVars, tcVars, hrVars >>
otherThanDownload ==
  << tsVars, sigVars, hashVars, certVars, cmVars, keyVars, statusVars, coreVars,
     hcVars, kmVars, soVars, tcVars, hrVars >>
otherThanCore ==
  << tsVars, sigVars, hashVars, certVars, cmVars, keyVars, statusVars,
     downloadVars, hcVars, kmVars, soVars, tcVars, hrVars >>
otherThanHc ==
  << tsVars, sigVars, hashVars, certVars, cmVars, keyVars, statusVars,
     downloadVars, coreVars, kmVars, soVars, tcVars, hrVars >>
otherThanKey ==
  << tsVars, sigVars, hashVars, certVars, cmVars, statusVars, downloadVars,
     coreVars, hcVars, kmVars, soVars, tcVars, hrVars >>
otherThanKm ==
  << tsVars, sigVars, hashVars, certVars, cmVars, keyVars, statusVars,
     downloadVars, coreVars, hcVars, soVars, tcVars, hrVars >>
otherThanSo ==
  << tsVars, sigVars, hashVars, certVars, cmVars, keyVars, statusVars,
     downloadVars, coreVars, hcVars, kmVars, tcVars, hrVars >>
otherThanTc ==
  << tsVars, sigVars, hashVars, certVars, cmVars, keyVars, statusVars,
     downloadVars, coreVars, hcVars, kmVars, soVars, hrVars >>
otherThanHr ==
  << tsVars, sigVars, hashVars, certVars, cmVars, keyVars, statusVars,
     downloadVars, coreVars, hcVars, kmVars, soVars, tcVars >>
otherThanHashCalculator ==
  << tsVars, sigVars, hashVars, certVars, cmVars, keyVars, statusVars,
     downloadVars, coreVars, kmVars, soVars, tcVars >>

(***************************************************************************)
(* Text helpers                                                            *)
(***************************************************************************)

\* The printable ASCII characters, code units 32..126 in order (the double
\* quote, the backslash and the backtick go by name).
PrintableAscii ==
  << " ", "!", "dquote", "#", "$", "%", "&", "'", "(", ")", "*", "+", ",", "-", ".", "/",
     "0", "1", "2", "3", "4", "5", "6", "7", "8", "9", ":", ";", "<", "=", ">", "?",
     "@", "A", "B", "C", "D", "E", "F", "G", "H", "I", "J", "K", "L", "M", "N", "O",
     "P", "Q", "R", "S", "T", "U", "V", "W", "X", "Y", "Z", "[", "backslash", "]", "^", "_",
     "backtick", "a", "b", "c", "d", "e", "f", "g", "h", "i", "j", "k", "l", "m", "n", "o",
     "p", "q", "r", "s", "t", "u", "v", "w", "x", "y", "z", "{", "|", "}", "~" >>

\* Code unit of a printable ASCII character.
Code(c) == 31 + (CHOOSE i \in DOMAIN PrintableAscii : PrintableAscii[i] = c)

\* A string literal, written as a tuple of characters, as code units.
Str(chars) == [i \in DOMAIN chars |-> Code(chars[i])]

RECURSIVE ConcatRange(_, _, _)
\* parts[lo] \o ... \o parts[hi], halving the range.
ConcatRange(parts, lo, hi) ==
  IF lo > hi THEN << >>
  ELSE IF lo = hi THEN parts[lo]
  ELSE LET mid == (lo + hi) \div 2
       IN  ConcatRange(parts, lo, mid) \o ConcatRange(parts, mid + 1, hi)

\* Concatenation of a sequence of sequences (Array.prototype.join with the
\* empty separator).
Concat(parts) == ConcatRange(parts, 1, Len(parts))

\* Lower-case hexadecimal digit of a value 0..15.
HexDigit(d) == IF d < 10 THEN 48 + d ELSE 87 + d

\* Upper-case of one code unit (ASCII letters only occur in the model).
UpperUnit(c) == IF c >= 97 /\ c <= 122 THEN c - 32 ELSE c

\* String.prototype.toUpperCase
ToUpperCase(s) == [i \in DOMAIN s |-> UpperUnit(s[i])]

\* String.prototype.substring(from, to) for 0 <= from <= to (0-based, to exclusive).
Substring(s, from, to) ==
  LET a == IF from > Len(s) THEN Len(s) ELSE from
      b == IF to > Len(s) THEN Len(s) ELSE to
  IN  SubSeq(s, a + 1, b)

\* String.prototype.padStart(n, '0')
PadStart0(s, n) ==
  IF Len(s) >= n THEN s ELSE [i \in 1..(n - Len(s)) |-> 48] \o s

\* JavaScript white space as String.prototype.trim and the regexp \s see it
\* (the members that occur in the model's inputs).
IsSpace(c) == c \in {9, 10, 11, 12, 13, 32, 160}

\* !text.trim(): the text is empty or white space only.
IsBlank(s) == \A i \in DOMAIN s : IsSpace(s[i])

(***************************************************************************)
(* Platform text and binary conversions used by the core                   *)
(***************************************************************************)

IsHighSurrogate(c) == c >= 55296 /\ c <= 56319
IsLowSurrogate(c) == c >= 56320 /\ c <= 57343

\* UTF-8 bytes of the scalar value cp.
Utf8OfScalar(cp) ==
  IF cp < 128 THEN << cp >>
  ELSE IF cp < 2048 THEN << 192 + (cp \div 64), 128 + (cp % 64) >>
  ELSE IF cp < 65536
    THEN << 224 + (cp \div 4096), 128 + ((cp \div 64) % 64), 128 + (cp % 64) >>
  ELSE << 240 + (cp \div 262144), 128 + ((cp \div 4096) % 64),
          128 + ((cp \div 64) % 64), 128 + (cp % 64) >>

\* The code unit at position i, or -1 outside the text.
UnitAt(s, i) == IF i >= 1 /\ i <= Len(s) THEN s[i] ELSE -1

\* Unit i is the first half of a surrogate pair.
PairStart(s, i) == IsHighSurrogate(UnitAt(s, i)) /\ IsLowSurrogate(UnitAt(s, i + 1))

\* Unit i is the second half of a surrogate pair.
PairEnd(s, i) == IsLowSurrogate(UnitAt(s, i)) /\ IsHighSurrogate(UnitAt(s, i - 1))

\* The UTF-8 bytes unit i contributes: a pair is written at its first half,
\* an unpaired surrogate becomes U+FFFD.
Utf8OfUnit(s, i) ==
  IF PairStart(s, i)
    THEN Utf8OfScalar(65536 + (s[i] - 55296) * 1024 + (s[i + 1] - 56320))
  ELSE IF PairEnd(s, i) THEN << >>
  ELSE IF IsHighSurrogate(s[i]) \/ IsLowSurrogate(s[i]) THEN Utf8OfScalar(65533)
  ELSE Utf8OfScalar(s[i])

\* new TextEncoder().encode(text): UTF-8, an unpaired surrogate becomes U+FFFD.
TextEncode(s) == Concat([i \in DOMAIN s |-> Utf8OfUnit(s, i)])

\* The base64 alphabet: character of a 6-bit value, and back.
B64Char(v) ==
  IF v < 26 THEN 65 + v
  ELSE IF v < 52 THEN 71 + v
  ELSE IF v < 62 THEN v - 4
  ELSE IF v = 62 THEN 43 ELSE 47

IsB64Char(c) ==
  \/ c >= 65 /\ c <= 90
  \/ c >= 97 /\ c <= 122
  \/ c >= 48 /\ c <= 57
  \/ c = 43
  \/ c = 47

B64Val(c) ==
  IF c >= 65 /\ c <= 90 THEN c - 65
  ELSE IF c >= 97 /\ c <= 122 THEN c - 71
  ELSE IF c >= 48 /\ c <= 57 THEN c + 4
  ELSE IF c = 43 THEN 62 ELSE 63

\* btoa(text): throws InvalidCharacterError when a code unit is above 255,
\* otherwise the padded base64 of the code units taken as bytes.
Btoa(s) ==
  IF \E i \in DOMAIN s : s[i] > 255
    THEN [ok |-> FALSE, v |-> << >>]
  ELSE
    LET n == Len(s)
        At(k) == IF k <= n THEN s[k] ELSE 0
        Triple(g) == At(3 * g + 1) * 65536 + At(3 * g + 2) * 256 + At(3 * g + 3)
        Out(j) ==
          LET g == (j - 1) \div 4
              k == (j - 1) % 4
          IN  IF k = 2 /\ 3 * g + 2 > n THEN 61
              ELSE IF k = 3 /\ 3 * g + 3 > n THEN 61
              ELSE B64Char((Triple(g) \div (64 ^ (3 - k))) % 64)
    IN  [ok |-> TRUE, v |-> [j \in 1..(4 * ((n + 2) \div 3)) |-> Out(j)]]

\* ASCII white space that atob removes before decoding.
IsAsciiSpace(c) == c \in {9, 10, 12, 13, 32}

\* The 6-bit value of character k of an unpadded base64 text, 0 past its end.
B64At(u, k) == IF k <= Len(u) THEN B64Val(u[k]) ELSE 0

\* Byte j of the data an unpadded base64 text encodes.
B64Byte(u, j) ==
  LET g == (j - 1) \div 3
      quad == B64At(u, 4 * g + 1) * 262144 + B64At(u, 4 * g + 2) * 4096
                + B64At(u, 4 * g + 3) * 64 + B64At(u, 4 * g + 4)
  IN  (quad \div (256 ^ (2 - ((j - 1) % 3)))) % 256

\* Decoding once white space and padding are gone: a length of 1 mod 4 or a
\* character outside the alphabet throws InvalidCharacterError.
AtobUnpadded(u) ==
  IF Len(u) % 4 = 1 \/ (\E i \in DOMAIN u : ~IsB64Char(u[i]))
    THEN [ok |-> FALSE, v |-> << >>]
    ELSE [ok |-> TRUE, v |-> [j \in 1..((Len(u) * 6) \div 8) |-> B64Byte(u, j)]]

\* When the length is a multiple of four, one or two trailing '=' are dropped.
AtobStripped(t) ==
  AtobUnpadded(IF Len(t) % 4 = 0 /\ Len(t) > 0 /\ t[Len(t)] = 61
                 THEN IF t[Len(t) - 1] = 61
                        THEN SubSeq(t, 1, Len(t) - 2)
                        ELSE SubSeq(t, 1, Len(t) - 1)
                 ELSE t)

\* atob(text), the forgiving base64 decode: ASCII white space is dropped,
\* then the padding, then the text is decoded.
Atob(s) == AtobStripped(SelectSeq(s, LAMBDA c : ~IsAsciiSpace(c)))

RECURSIVE NatToHex(_)
\* Number.prototype.toString(16) of a non-negative integer.
NatToHex(n) ==
  IF n < 16 THEN << HexDigit(n) >> ELSE Append(NatToHex(n \div 16), HexDigit(n % 16))

(***************************************************************************)
(* JSON.stringify and JSON.parse                                           *)
(***************************************************************************)

\* A JavaScript value as JSON.parse builds it: t is the type, s the text of
\* a string (or the literal of a number), kids the members of an object
\* ([k |-> key, v |-> value], in source order) or the elements of an array.
JsValue(t, s, kids) == [t |-> t, s |-> s, kids |-> kids]
JsUndefined == JsValue("undefined", << >>, << >>)
JsString(s) == JsValue("string", s, << >>)

Hex4(c) ==
  << HexDigit(c \div 4096), HexDigit((c \div 256) % 16),
     HexDigit((c \div 16) % 16), HexDigit(c % 16) >>

\* QuoteJSONString for unit i of a text: the short escapes, \uXXXX for the
\* other control characters and for unpaired surrogates, the unit itself
\* otherwise.
QuoteUnit(s, i) ==
  LET c == s[i]
  IN  IF c = 8 THEN << 92, 98 >>
      ELSE IF c = 9 THEN << 92, 116 >>
      ELSE IF c = 10 THEN << 92, 110 >>
      ELSE IF c = 12 THEN << 92, 102 >>
      ELSE IF c = 13 THEN << 92, 114 >>
      ELSE IF c = 34 THEN << 92, 34 >>
      ELSE IF c = 92 THEN << 92, 92 >>
      ELSE IF c < 32 THEN << 92, 117 >> \o Hex4(c)
      ELSE IF (IsHighSurrogate(c) \/ IsLowSurrogate(c))
                /\ ~PairStart(s, i) /\ ~PairEnd(s, i)
        THEN << 92, 117 >> \o Hex4(c)
      ELSE << c >>

\* JSON.stringify of a string: quoted, with the escapes of QuoteJSONString.
JsonQuote(s) == << 34 >> \o Concat([i \in DOMAIN s |-> QuoteUnit(s, i)]) \o << 34 >>

RECURSIVE StringifyMembers(_)
StringifyMembers(members) ==
  IF members = << >> THEN << >>
  ELSE JsonQuote(Head(members).k) \o << 58 >> \o JsonQuote(Head(members).v)
         \o (IF Len(members) > 1 THEN << 44 >> ELSE << >>)
         \o StringifyMembers(Tail(members))

\* JSON.stringify of an object whose properties are all strings; members is
\* the sequence of [k |-> name, v |-> text] in insertion order.
JsonStringifyObject(members) == << 123 >> \o StringifyMembers(members) \o << 125 >>

IsDigit(c) == c >= 48 /\ c <= 57
IsHexDigit(c) == IsDigit(c) \/ (c >= 97 /\ c <= 102) \/ (c >= 65 /\ c <= 70)
HexVal(c) == IF IsDigit(c) THEN c - 48 ELSE IF c >= 97 THEN c - 87 ELSE c - 55

\* JSON white space: tab, line feed, carriage return, space.
IsJsonSpace(c) == c \in {9, 10, 13, 32}

\* The first position from i on whose unit is not in the set units (the
\* position after the text when there is none).
SkipWhile(s, i, units) ==
  CHOOSE j \in i..(Len(s) + 1) :
    /\ UnitAt(s, j) \notin units
    /\ \A k \in i..(j - 1) : s[k] \in units

SkipWs(s, i) == SkipWhile(s, i, {9, 10, 13, 32})

SkipDigits(s, i) == SkipWhile(s, i, 48..57)

ParseFail == [ok |-> FALSE, i |-> 0, val |-> JsUndefined]
ParseOk(i, val) == [ok |-> TRUE, i |-> i, val |-> val]

\* Inside a string that opens before position i: the backslashes that
\* directly precede position k, counted back to i.
BackslashRun(s, i, k) ==
  LET stop == CHOOSE j \in (i - 1)..(k - 1) :
                /\ j = i - 1 \/ s[j] # 92
                /\ \A h \in (j + 1)..(k - 1) : s[h] = 92
  IN  k - 1 - stop

\* Position k starts an escape sequence: a backslash that is not itself
\* escaped.
EscapeStart(s, i, k) == UnitAt(s, k) = 92 /\ BackslashRun(s, i, k) % 2 = 0

\* Position k belongs to an escape sequence that starts before it.
InEscape(s, i, k) ==
  \/ k - 1 >= i /\ EscapeStart(s, i, k - 1)
  \/ \E d \in 2..5 : k - d >= i /\ EscapeStart(s, i, k - d) /\ s[k - d + 1] = 117

\* The escape sequence at position k is well formed.
EscapeOk(s, k) ==
  \/ UnitAt(s, k + 1) \in {34, 92, 47, 98, 102, 110, 114, 116}
  \/ UnitAt(s, k + 1) = 117 /\ \A d \in 2..5 : IsHexDigit(UnitAt(s, k + d))

\* The code unit the escape sequence at position k denotes.
EscapeValue(s, k) ==
  LET e == s[k + 1]
  IN  IF e = 98 THEN 8
      ELSE IF e = 102 THEN 12
      ELSE IF e = 110 THEN 10
      ELSE IF e = 114 THEN 13
      ELSE IF e = 116 THEN 9
      ELSE IF e = 117
        THEN HexVal(s[k + 2]) * 4096 + HexVal(s[k + 3]) * 256
               + HexVal(s[k + 4]) * 16 + HexVal(s[k + 5])
      ELSE e

\* The text a position inside a string contributes to its value.
StringPiece(s, i, k) ==
  IF InEscape(s, i, k) THEN << >>
  ELSE IF s[k] = 92 THEN << EscapeValue(s, k) >>
  ELSE << s[k] >>

\* The closing quote of the string that opens before position i: the first
\* quote that is not escaped, 0 when there is none.
StringEnd(s, i) ==
  LET IsEnd(j) == s[j] = 34 /\ BackslashRun(s, i, j) % 2 = 0
  IN  IF \E j \in i..Len(s) : IsEnd(j)
        THEN CHOOSE j \in i..Len(s) : IsEnd(j) /\ \A h \in i..(j - 1) : ~IsEnd(h)
        ELSE 0

\* The string from position i to its closing quote at position end; control
\* characters and malformed escapes are errors.
StringTo(s, i, end) ==
  IF end = 0 THEN ParseFail
  ELSE IF \E k \in i..(end - 1) :
            \/ s[k] < 32
            \/ EscapeStart(s, i, k) /\ ~EscapeOk(s, k)
    THEN ParseFail
  ELSE ParseOk(end + 1,
         JsString(Concat([k \in 1..(end - i) |-> StringPiece(s, i, i + k - 1)])))

\* The rest of a JSON string after its opening quote, from position i.
ScanString(s, i) == StringTo(s, i, StringEnd(s, i))

\* A JSON number that starts at position i and ends before position f.
NumberTo(s, i, f) == ParseOk(f, JsValue("number", SubSeq(s, i, f - 1), << >>))

\* The digits of the exponent run from d to before f.
NumberExpDigits(s, i, d, f) == IF f > d THEN NumberTo(s, i, f) ELSE ParseFail

\* The optional exponent at position c: [eE] [+-]? [0-9]+
NumberExp(s, i, c) ==
  IF UnitAt(s, c) \notin {101, 69} THEN NumberTo(s, i, c)
  ELSE IF UnitAt(s, c + 1) \in {43, 45}
    THEN NumberExpDigits(s, i, c + 2, SkipDigits(s, c + 2))
  ELSE NumberExpDigits(s, i, c + 1, SkipDigits(s, c + 1))

\* The digits of the fraction run from b + 1 to before c.
NumberFracDigits(s, i, b, c) == IF c > b + 1 THEN NumberExp(s, i, c) ELSE ParseFail

\* The integer part runs from a to before b; the optional fraction follows.
NumberInt(s, i, a, b) ==
  IF b = a THEN ParseFail
  ELSE IF UnitAt(s, b) = 46 THEN NumberFracDigits(s, i, b, SkipDigits(s, b + 1))
  ELSE NumberExp(s, i, b)

\* The integer part at position a: 0 | [1-9][0-9]*
NumberFrom(s, i, a) ==
  NumberInt(s, i, a, IF UnitAt(s, a) = 48 THEN a + 1 ELSE SkipDigits(s, a))

\* A JSON number starting at position i:
\* -? (0 | [1-9][0-9]*) (. [0-9]+)? ([eE] [+-]? [0-9]+)?
ParseNumber(s, i) == NumberFrom(s, i, IF UnitAt(s, i) = 45 THEN i + 1 ELSE i)

\* The literal word (true, false, null) expected at position i.
ParseWord(s, i, word, t) ==
  IF i + Len(word) - 1 <= Len(s) /\ SubSeq(s, i, i + Len(word) - 1) = word
    THEN ParseOk(i + Len(word), JsValue(t, << >>, << >>))
    ELSE ParseFail

RECURSIVE ParseValue(_, _)
RECURSIVE ParseMembers(_, _, _)
RECURSIVE ParseElements(_, _, _)

\* After a member, at position c: a comma and more members, or the end of
\* the object.
MembersSep(s, members, c) ==
  IF UnitAt(s, c) = 44 THEN ParseMembers(s, c + 1, members)
  ELSE IF UnitAt(s, c) = 125 THEN ParseOk(c + 1, JsValue("object", << >>, members))
  ELSE ParseFail

\* The value of a member has been read.
MemberValue(s, acc, key, val) ==
  IF ~val.ok THEN ParseFail
  ELSE MembersSep(s, Append(acc, [k |-> key.val.s, v |-> val.val]), SkipWs(s, val.i))

\* The colon expected at position b after the key of a member.
MemberColon(s, acc, key, b) ==
  IF UnitAt(s, b) = 58 THEN MemberValue(s, acc, key, ParseValue(s, b + 1))
  ELSE ParseFail

\* The key of a member has been read.
MemberKey(s, acc, key) ==
  IF key.ok THEN MemberColon(s, acc, key, SkipWs(s, key.i)) ELSE ParseFail

\* A member expected at position a.
MemberAt(s, acc, a) ==
  IF UnitAt(s, a) = 34 THEN MemberKey(s, acc, ScanString(s, a + 1)) ELSE ParseFail

\* The members of an object from position i (after '{' or ','), acc the
\* members read so far.
ParseMembers(s, i, acc) == MemberAt(s, acc, SkipWs(s, i))

\* After an element, at position c: a comma and more elements, or the end
\* of the array.
ElementsSep(s, elements, c) ==
  IF UnitAt(s, c) = 44 THEN ParseElements(s, c + 1, elements)
  ELSE IF UnitAt(s, c) = 93 THEN ParseOk(c + 1, JsValue("array", << >>, elements))
  ELSE ParseFail

\* An element has been read.
ElementValue(s, acc, val) ==
  IF ~val.ok THEN ParseFail
  ELSE ElementsSep(s, Append(acc, [k |-> << >>, v |-> val.val]), SkipWs(s, val.i))

\* The elements of an array from position i (after '[' or ','), acc the
\* elements read so far.
ParseElements(s, i, acc) == ElementValue(s, acc, ParseValue(s, i))

\* After '{', at position b: the empty object, or members.
ObjectAt(s, b) ==
  IF UnitAt(s, b) = 125 THEN ParseOk(b + 1, JsValue("object", << >>, << >>))
  ELSE ParseMembers(s, b, << >>)

\* After '[', at position b: the empty array, or elements.
ArrayAt(s, b) ==
  IF UnitAt(s, b) = 93 THEN ParseOk(b + 1, JsValue("array", << >>, << >>))
  ELSE ParseElements(s, b, << >>)

\* The JSON value that starts at position a.
ValueAt(s, a) ==
  LET c == UnitAt(s, a)
  IN  IF c = 123 THEN ObjectAt(s, SkipWs(s, a + 1))
      ELSE IF c = 91 THEN ArrayAt(s, SkipWs(s, a + 1))
      ELSE IF c = 34 THEN ScanString(s, a + 1)
      ELSE IF c = 45 \/ IsDigit(c) THEN ParseNumber(s, a)
      ELSE IF c = 116 THEN ParseWord(s, a, Str(<< "t", "r", "u", "e" >>), "true")
      ELSE IF c = 102 THEN ParseWord(s, a, Str(<< "f", "a", "l", "s", "e" >>), "false")
      ELSE IF c = 110 THEN ParseWord(s, a, Str(<< "n", "u", "l", "l" >>), "null")
      ELSE ParseFail

\* One JSON value from position i, leading white space skipped.
ParseValue(s, i) == ValueAt(s, SkipWs(s, i))

\* The whole text must be one value: nothing but white space may follow.
WholeText(s, r) ==
  IF r.ok /\ SkipWs(s, r.i) > Len(s)
    THEN [ok |-> TRUE, v |-> r.val]
    ELSE [ok |-> FALSE, v |-> JsUndefined]

\* JSON.parse(text): ok = FALSE is the SyntaxError.
JsonParse(s) == WholeText(s, ParseValue(s, 1))

\* value.name for a parsed value: throws (ok = FALSE) on null; the last
\* member of that name for an object; undefined for everything else.
GetProperty(val, name) ==
  IF val.t = "null" THEN [ok |-> FALSE, v |-> JsUndefined]
  ELSE IF val.t = "object" /\ (\E j \in DOMAIN val.kids : val.kids[j].k = name)
    THEN LET last == CHOOSE j \in DOMAIN val.kids :
                       /\ val.kids[j].k = name
                       /\ \A h \in DOMAIN val.kids : val.kids[h].k = name => h <= j
         IN  [ok |-> TRUE, v |-> val.kids[last].v]
  ELSE [ok |-> TRUE, v |-> JsUndefined]

(***************************************************************************)
(* Date: instants, toISOString and Date.parse                              *)
(***************************************************************************)

\* 24 * 60 * 60 * 1000, the milliseconds of one day.
MsPerDay == 86400000

\* A time value (Date.prototype.getTime) is day * MsPerDay + ms, kept as the
\* pair [day, ms] with 0 <= ms < MsPerDay so that it never leaves TLC's
\* integers; day 0 is 1970-01-01.
Instant(day, ms) == [day |-> day, ms |-> ms]

\* t + n * 24 * 60 * 60 * 1000 for an integer n.
AddDays(t, n) == Instant(t.day + n, t.ms)

\* t + n milliseconds for 0 <= n.
AddMs(t, n) == Instant(t.day + ((t.ms + n) \div MsPerDay), (t.ms + n) % MsPerDay)

\* a < b on time values.
Before(a, b) == a.day < b.day \/ (a.day = b.day /\ a.ms < b.ms)

\* The time values a Date can hold: within 100,000,000 days of the epoch.
IsValidTime(t) ==
  /\ t.day >= -100000000
  /\ t.day < 100000000 \/ (t.day = 100000000 /\ t.ms = 0)

\* Decimal digits of n, zero padded to width w.
Digits(n, w) == [i \in 1..w |-> 48 + ((n \div (10 ^ (w - i))) % 10)]

\* The date of day doy of the year that starts in March of year y, in the
\* month mp counted from March.
CivilOfMonth(y, doy, mp) ==
  [y |-> y + (IF mp >= 10 THEN 1 ELSE 0),
   m |-> IF mp < 10 THEN mp + 3 ELSE mp - 9,
   d |-> doy - ((153 * mp + 2) \div 5) + 1]

CivilOfYear(y, doy) == CivilOfMonth(y, doy, (5 * doy + 2) \div 153)

\* yoe is the year of the 400-year era, doe the day of the era.
CivilOfEraYear(era, doe, yoe) ==
  CivilOfYear(yoe + era * 400, doe - (365 * yoe + (yoe \div 4) - (yoe \div 100)))

CivilOfEraDay(era, doe) ==
  CivilOfEraYear(era, doe,
    (doe - (doe \div 1460) + (doe \div 36524) - (doe \div 146096)) \div 365)

\* Year, month and day of month of a day number (proleptic Gregorian).
CivilFromDays(days) ==
  CivilOfEraDay((days + 719468) \div 146097, (days + 719468) % 146097)

\* Day number of a calendar date.
DaysFromCivil(y, m, d) ==
  LET yy == IF m <= 2 THEN y - 1 ELSE y
      era == yy \div 400
      yoe == yy - era * 400
      mp == IF m > 2 THEN m - 3 ELSE m + 9
      doy == ((153 * mp + 2) \div 5) + d - 1
      doe == yoe * 365 + (yoe \div 4) - (yoe \div 100) + doy
  IN  era * 146097 + doe - 719468

\* The year of an ISO date: four digits, or a sign and six digits outside
\* 0..9999.
ISOYear(y) ==
  IF y >= 0 /\ y <= 9999 THEN Digits(y, 4)
  ELSE IF y < 0 THEN << 45 >> \o Digits(-y, 6)
  ELSE << 43 >> \o Digits(y, 6)

\* YYYY-MM-DDTHH:mm:ss.sssZ for the date c, sec seconds and ms milliseconds
\* into the day.
ISOText(c, sec, ms) ==
  ISOYear(c.y) \o << 45 >> \o Digits(c.m, 2) \o << 45 >> \o Digits(c.d, 2)
    \o << 84 >> \o Digits(sec \div 3600, 2) \o << 58 >>
    \o Digits((sec \div 60) % 60, 2) \o << 58 >> \o Digits(sec % 60, 2)
    \o << 46 >> \o Digits(ms, 3) \o << 90 >>

\* Date.prototype.toISOString; throws RangeError on an invalid date.
ToISOString(t) ==
  IF ~IsValidTime(t) THEN [ok |-> FALSE, v |-> << >>]
  ELSE [ok |-> TRUE,
        v |-> ISOText(CivilFromDays(t.day), t.ms \div 1000, t.ms % 1000)]

RECURSIVE DecimalValue(_)
\* The number a sequence of decimal digits denotes.
DecimalValue(ds) ==
  IF ds = << >> THEN 0
  ELSE 10 * DecimalValue(SubSeq(ds, 1, Len(ds) - 1)) + (ds[Len(ds)] - 48)

\* new Date(text).getTime() for the formats toISOString writes; ok = FALSE
\* is the invalid date (NaN).
ParseISO(s) ==
  LET ylen == IF UnitAt(s, 1) \in {43, 45} THEN 7 ELSE 4
      ydigits == IF ylen = 7 THEN SubSeq(s, 2, 7) ELSE SubSeq(s, 1, 4)
      r == SubSeq(s, ylen + 1, Len(s))
      Num(a, b) == DecimalValue(SubSeq(r, a, b))
      shape ==
        /\ Len(s) = ylen + 20
        /\ \A i \in DOMAIN ydigits : IsDigit(ydigits[i])
        /\ r[1] = 45 /\ r[4] = 45 /\ r[7] = 84 /\ r[10] = 58 /\ r[13] = 58
        /\ r[16] = 46 /\ r[20] = 90
        /\ \A i \in {2, 3, 5, 6, 8, 9, 11, 12, 14, 15, 17, 18, 19} : IsDigit(r[i])
      year == IF UnitAt(s, 1) = 45 THEN -DecimalValue(ydigits) ELSE DecimalValue(ydigits)
  IN  IF Len(s) >= 24 /\ shape
           /\ Num(2, 3) \in 1..12 /\ Num(5, 6) \in 1..31 /\ Num(8, 9) < 24
           /\ Num(11, 12) < 60 /\ Num(14, 15) < 60
        THEN [ok |-> TRUE,
              v |-> Instant(DaysFromCivil(year, Num(2, 3), Num(5, 6)),
                            ((Num(8, 9) * 60 + Num(11, 12)) * 60 + Num(14, 15)) * 1000
                              + Num(17, 19))]
        ELSE [ok |-> FALSE, v |-> Instant(0, 0)]

(***************************************************************************)
(* Math.random                                                             *)
(***************************************************************************)

\* Digit of a value 0..35 in Number.prototype.toString(radix).
RadixDigit(v) == IF v < 10 THEN 48 + v ELSE 87 + v

\* Math.random().toString(radix) for a random number given by the digits of
\* its fraction in that radix (no digits: the number 0, written "0").
RandomToString(digits) ==
  IF digits = << >> THEN << 48 >>
  ELSE << 48, 46 >> \o [i \in DOMAIN digits |-> RadixDigit(digits[i])]

(***************************************************************************)
(* DigitalSignatureSystem: timestamp tokens                                *)
(***************************************************************************)

AuthorityName ==
  Str(<< "L", "o", "c", "a", "l", " ", "T", "i", "m", "e", "s", "t", "a", "m", "p",
         " ", "A", "u", "t", "h", "o", "r", "i", "t", "y", " ", "(", "D", "e", "m",
         "o", ")" >>)

TimestampKey == Str(<< "t", "i", "m", "e", "s", "t", "a", "m", "p" >>)
NonceKey == Str(<< "n", "o", "n", "c", "e" >>)
DataKey == Str(<< "d", "a", "t", "a" >>)
AlgorithmKey == Str(<< "a", "l", "g", "o", "r", "i", "t", "h", "m" >>)
AuthorityKey == Str(<< "a", "u", "t", "h", "o", "r", "i", "t", "y" >>)
Sha256Name == Str(<< "S", "H", "A", "-", "2", "5", "6" >>)

\* The object createTimestamp serializes, as its members in order.
\* TimestampObject keeping one unit less of the data.
TimestampObjectCut99(data, iso, rnd) ==
  << [k |-> TimestampKey, v |-> iso],
     [k |-> NonceKey, v |-> Substring(RandomToString(rnd), 2, 15)],
     [k |-> DataKey, v |-> Substring(data, 0, 99)],
     [k |-> AlgorithmKey, v |-> Sha256Name],
     [k |-> AuthorityKey, v |-> AuthorityName] >>

TimestampObject(data, iso, rnd) ==
  << [k |-> TimestampKey, v |-> iso],
     [k |-> NonceKey, v |-> Substring(RandomToString(rnd), 2, 15)],
     [k |-> DataKey, v |-> Substring(data, 0, 100)],
     [k |-> AlgorithmKey, v |-> Sha256Name],
     [k |-> AuthorityKey, v |-> AuthorityName] >>

\* createTimestamp(data) at clock reading t with Math.random() = rnd:
\* [ok |-> TRUE, v |-> token], or ok = FALSE when btoa throws.
createTimestamp(data, t, rnd) ==
  Btoa(JsonStringifyObject(TimestampObject(data, ToISOString(t).v, rnd)))

\* What verifyTimestamp returns: raised is an error escaping the call, keys
\* the properties the returned object has besides valid.
TimestampVerdict(raised, valid, keys, timestamp, authority) ==
  [raised |-> raised, valid |-> valid, keys |-> keys,
   timestamp |-> timestamp, authority |-> authority]

InvalidVerdict == TimestampVerdict(FALSE, FALSE, {}, JsUndefined, JsUndefined)

\* An error thrown out of verifyTimestamp.
RaisedVerdict == TimestampVerdict(TRUE, FALSE, {}, JsUndefined, JsUndefined)

\* VerdictOfFields accepting only the authority createTimestamp names.
VerdictOfFieldsOfAuthority(ts, au) ==
  IF ~ts.ok \/ ~au.ok \/ au.v # JsString(AuthorityName) THEN InvalidVerdict
  ELSE TimestampVerdict(FALSE, TRUE, {"timestamp", "authority"}, ts.v, au.v)

\* The object verifyTimestamp returns once both properties have been read.
VerdictOfFields(ts, au) ==
  IF ~ts.ok \/ ~au.ok THEN InvalidVerdict
  ELSE TimestampVerdict(FALSE, TRUE, {"timestamp", "authority"}, ts.v, au.v)

\* JSON.parse has returned decoded, or thrown.
VerdictOfParsed(decoded) ==
  IF ~decoded.ok THEN InvalidVerdict
  ELSE VerdictOfFields(GetProperty(decoded.v, TimestampKey),
                       GetProperty(decoded.v, AuthorityKey))

\* VerdictOfBinary without the try/catch around atob: the decode error
\* escapes.
VerdictOfBinaryUncaught(bin) ==
  IF ~bin.ok THEN RaisedVerdict ELSE VerdictOfParsed(JsonParse(bin.v))

\* atob has returned bin, or thrown.
VerdictOfBinary(bin) ==
  IF ~bin.ok THEN InvalidVerdict ELSE VerdictOfParsed(JsonParse(bin.v))

\* verifyTimestamp(token): JSON.parse(atob(token)) and the two property
\* reads inside try; the catch returns { valid: false }.
verifyTimestamp(token) == VerdictOfBinary(Atob(token))

(***************************************************************************)
(* The crypto provider (window.crypto.subtle) for RSA-PSS                  *)
(***************************************************************************)

\* A CryptoKey: kid names the key pair it belongs to.
CryptoKey(kid, type, modulusLength, usages) ==
  [kid |-> kid, type |-> type, modulusLength |-> modulusLength, usages |-> usages]

\* No key.
NoKey == CryptoKey(0, "none", 0, {})

\* subtle.generateKey(RSA-PSS, modulusLength, extractable, [sign, verify]):
\* the public key gets the usage verify, the private key the usage sign.
ProviderGenerateKey(kid, modulusLength) ==
  [publicKey |-> CryptoKey(kid, "public", modulusLength, {"verify"}),
   privateKey |-> CryptoKey(kid, "private", modulusLength, {"sign"})]

\* The signature of an ideal scheme, as long as the modulus: it names the
\* key pair, carries the salt, and determines the signed bytes.
SignatureBytes(kid, modulusLength, data, salt) ==
  LET head == << kid, salt, Len(data) >> \o data
  IN  [i \in 1..(modulusLength \div 8) |-> IF i <= Len(head) THEN head[i] ELSE 0]

\* ProviderSign signing with whatever key it is handed.
ProviderSignAnyKey(key, data, salt) ==
  [ok |-> TRUE, v |-> SignatureBytes(key.kid, key.modulusLength, data, salt)]

\* subtle.sign({name: RSA-PSS, saltLength: 32}, key, data): throws
\* InvalidAccessError unless the key is a private key with the usage sign.
ProviderSign(key, data, salt) ==
  IF key.type = "private" /\ "sign" \in key.usages
    THEN [ok |-> TRUE, v |-> SignatureBytes(key.kid, key.modulusLength, data, salt)]
    ELSE [ok |-> FALSE, v |-> << >>]

\* subtle.verify({name: RSA-PSS, saltLength: 32}, key, signature, data):
\* throws InvalidAccessError unless the key is a public key with the usage
\* verify; a signature of the wrong length or for other bytes or another key
\* is false.
ProviderVerify(key, signature, data) ==
  IF key.type = "public" /\ "verify" \in key.usages
    THEN [ok |-> TRUE,
          v |-> /\ Len(signature) = key.modulusLength \div 8
                /\ signature
                     = SignatureBytes(key.kid, key.modulusLength, data, signature[2])]
    ELSE [ok |-> FALSE, v |-> FALSE]

(***************************************************************************)
(* DigitalSignatureSystem: key pairs, signData and verifySignature         *)
(***************************************************************************)

\* generateKeyPair(keySize): the pair the provider generates.
generateKeyPair(kid, keySize) == ProviderGenerateKey(kid, keySize)

\* generateKeyPair(keySize) once subtle.generateKey has settled: a rejection
\* is rethrown as "Failed to generate key pair".
generateKeyPairSettled(kid, keySize, rejected) ==
  IF rejected THEN [ok |-> FALSE, v |-> generateKeyPair(0, 0)]
  ELSE [ok |-> TRUE, v |-> generateKeyPair(kid, keySize)]

\* typeof data === 'string' ? encoder.encode(data) : data
DataBuffer(data) == IF data.kind = "string" THEN TextEncode(data.v) ELSE data.v

RsaPssName == Str(<< "R", "S", "A", "-", "P", "S", "S" >>)

\* SignatureResult with the first byte of the signature lost in the encoding.
SignatureResultShort(signature, t) ==
  [signature |-> Btoa(SubSeq(signature, 2, Len(signature))).v,
   algorithm |-> RsaPssName, keySize |-> 2048, timestamp |-> ToISOString(t).v]

\* The SignatureResult signData builds from the provider's signature.
SignatureResult(signature, t) ==
  [signature |-> Btoa(signature).v, algorithm |-> RsaPssName, keySize |-> 2048,
   timestamp |-> ToISOString(t).v]

\* The result of signData once the provider has answered: any error is
\* rethrown as "Failed to sign data".
SignedResult(signed, t) ==
  IF signed.ok
    THEN [ok |-> TRUE, v |-> SignatureResult(signed.v, t)]
    ELSE [ok |-> FALSE, v |-> SignatureResult(<< >>, t)]

\* signData(data, privateKey) at clock reading t, the provider drawing salt.
signData(data, privateKey, t, salt) ==
  SignedResult(ProviderSign(privateKey, DataBuffer(data), salt), t)

\* The outcome of verifySignature: ok = FALSE is the error it throws.
VerifyOutcome(answer) ==
  IF answer.ok THEN [ok |-> TRUE, v |-> answer.v] ELSE [ok |-> FALSE, v |-> FALSE]

\* VerifyDecoded taking "the provider did not throw" for "the signature is
\* valid".
VerifyDecodedAnyAnswer(data, bin, publicKey) ==
  IF ~bin.ok THEN [ok |-> FALSE, v |-> FALSE]
  ELSE [ok |-> ProviderVerify(publicKey, bin.v, DataBuffer(data)).ok, v |-> TRUE]

\* verifySignature once atob has returned bin or thrown: the catch rethrows
\* every error as "Failed to verify signature".
VerifyDecoded(data, bin, publicKey) ==
  IF ~bin.ok THEN [ok |-> FALSE, v |-> FALSE]
  ELSE VerifyOutcome(ProviderVerify(publicKey, bin.v, DataBuffer(data)))

\* verifySignature(data, signature, publicKey)
verifySignature(data, signature, publicKey) ==
  VerifyDecoded(data, Atob(signature), publicKey)

(***************************************************************************)
(* The crypto provider: exportKey and importKey                            *)
(***************************************************************************)

\* The bytes of an encoded key beyond those of its modulus: 38 in a
\* SubjectPublicKeyInfo; a PKCS#8 private key is kept as short here.
DerOverhead(format) == IF format = "spki" THEN 38 ELSE 200

\* The tag that tells the two encodings apart.
DerTag(format) == IF format = "spki" THEN 13 ELSE 2

\* The encoding of a key in a format: a header that names the format, the
\* key pair and the modulus length, then bytes the key determines.
Der(format, kid, modulusLength) ==
  [i \in 1..(modulusLength \div 8 + DerOverhead(format)) |->
     IF i = 1 THEN 48
     ELSE IF i = 2 THEN 130
     ELSE IF i = 3 THEN DerTag(format)
     ELSE IF i = 4 THEN kid
     ELSE IF i = 5 THEN modulusLength \div 256
     ELSE IF i = 6 THEN modulusLength % 256
     ELSE (i * 37 + kid * 101) % 256]

\* The key type each format encodes.
TypeOfFormat(format) == IF format = "spki" THEN "public" ELSE "private"

\* subtle.exportKey(format, key): throws InvalidAccessError for a key of the
\* other type.
ProviderExportKey(format, key) ==
  IF key.type = TypeOfFormat(format)
    THEN [ok |-> TRUE, v |-> Der(format, key.kid, key.modulusLength)]
    ELSE [ok |-> FALSE, v |-> << >>]

\* Whether bytes are the encoding of a key in a format.
IsDer(format, der) ==
  /\ Len(der) >= 6
  /\ der[4] >= 1
  /\ der[5] * 256 + der[6] >= 8
  /\ der = Der(format, der[4], der[5] * 256 + der[6])

\* subtle.importKey(format, der, {name: RSA-PSS, hash: SHA-256}, true,
\* usages): throws DataError for bytes that do not encode a key in the
\* format; the key it returns has the usages asked for.
ProviderImportKey(format, der, usages) ==
  IF IsDer(format, der)
    THEN [ok |-> TRUE,
          v |-> CryptoKey(der[4], TypeOfFormat(format), der[5] * 256 + der[6], usages)]
    ELSE [ok |-> FALSE, v |-> NoKey]

(***************************************************************************)
(* DigitalSignatureSystem: export and import of keys in PEM                *)
(***************************************************************************)

Dashes == Str(<< "-", "-", "-", "-", "-" >>)
PublicKeyLabel == Str(<< "P", "U", "B", "L", "I", "C", " ", "K", "E", "Y" >>)
PrivateKeyLabel == Str(<< "P", "R", "I", "V", "A", "T", "E", " ", "K", "E", "Y" >>)

\* -----BEGIN label----- and -----END label-----
PemBegin(label) == Dashes \o Str(<< "B", "E", "G", "I", "N", " " >>) \o label \o Dashes
PemEnd(label) == Dashes \o Str(<< "E", "N", "D", " " >>) \o label \o Dashes

UndefinedText == Str(<< "u", "n", "d", "e", "f", "i", "n", "e", "d" >>)

\* Lines64 with pieces of 76 units.
Lines76(text) ==
  IF text = << >> THEN UndefinedText
  ELSE [i \in 1..(Len(text) + (Len(text) - 1) \div 76) |->
          IF i % 77 = 0 THEN 10 ELSE text[i - i \div 77]]

\* text.match(/.{1,64}/g)?.join('\n') on a text without line terminators:
\* its pieces of 64 units, the last one shorter, each but the last followed
\* by a line feed; undefined for the empty text, which has no match.
Lines64(text) ==
  IF text = << >> THEN UndefinedText
  ELSE [i \in 1..(Len(text) + (Len(text) - 1) \div 64) |->
          IF i % 65 = 0 THEN 10 ELSE text[i - i \div 65]]

\* The PEM text around the base64 of an exported key.
PemOf(label, base64) == PemBegin(label) \o << 10 >> \o Lines64(base64) \o << 10 >> \o PemEnd(label)

\* exportPublicKey / exportPrivateKey once exportKey has answered: an error
\* is rethrown as "Failed to export ... key".
PemOfExported(label, exported) ==
  IF exported.ok THEN [ok |-> TRUE, v |-> PemOf(label, Btoa(exported.v).v)]
  ELSE [ok |-> FALSE, v |-> << >>]

\* exportPublicKey(publicKey)
exportPublicKey(publicKey) ==
  PemOfExported(PublicKeyLabel, ProviderExportKey("spki", publicKey))

\* exportPrivateKey(privateKey)
exportPrivateKey(privateKey) ==
  PemOfExported(PrivateKeyLabel, ProviderExportKey("pkcs8", privateKey))

\* Where a text first occurs in another, 0 when it does not.
IndexOf(s, pattern) ==
  IF \E i \in 1..(Len(s) - Len(pattern) + 1) : SubSeq(s, i, i + Len(pattern) - 1) = pattern
    THEN CHOOSE i \in 1..(Len(s) - Len(pattern) + 1) :
           /\ SubSeq(s, i, i + Len(pattern) - 1) = pattern
           /\ \A j \in 1..(i - 1) : SubSeq(s, j, j + Len(pattern) - 1) # pattern
    ELSE 0

\* The text without its units at..(at + n - 1), the whole text when at = 0.
Cut(s, at, n) ==
  IF at = 0 THEN s ELSE SubSeq(s, 1, at - 1) \o SubSeq(s, at + n, Len(s))

\* s.replace(pattern, ''): the first occurrence of the pattern removed.
RemoveFirst(s, pattern) == Cut(s, IndexOf(s, pattern), Len(pattern))

\* The white space of \s in a regular expression.
IsRegExpSpace(c) ==
  \/ c \in {9, 10, 11, 12, 13, 32, 160, 5760, 8232, 8233, 8239, 8287, 12288, 65279}
  \/ (c >= 8192 /\ c <= 8202)

\* s.replace(/\s/g, '')
RemoveSpaces(s) == SelectSeq(s, LAMBDA c : ~IsRegExpSpace(c))

\* pemContents with the END line left in place.
PemContentsKeepEnd(pemKey, label) ==
  RemoveSpaces(RemoveFirst(pemKey, PemBegin(label)))

\* pemContents: the PEM text without its BEGIN line, its END line and its
\* white space.
PemContents(pemKey, label) ==
  RemoveSpaces(RemoveFirst(RemoveFirst(pemKey, PemBegin(label)), PemEnd(label)))

\* importPublicKey / importPrivateKey once atob has returned bin or thrown:
\* every error is rethrown as "Failed to import ... key".
ImportDecoded(format, bin, usages) ==
  IF bin.ok THEN ProviderImportKey(format, bin.v, usages)
  ELSE [ok |-> FALSE, v |-> NoKey]

\* importPublicKey(pemKey)
importPublicKey(pemKey) ==
  ImportDecoded("spki", Atob(PemContents(pemKey, PublicKeyLabel)), {"verify"})

\* importPrivateKey(pemKey)
importPrivateKey(pemKey) ==
  ImportDecoded("pkcs8", Atob(PemContents(pemKey, PrivateKeyLabel)), {"sign"})

(***************************************************************************)
(* DigitalSignatureSystem: calculateHash and simpleMD5                     *)
(***************************************************************************)

Sha1Name == Str(<< "S", "H", "A", "-", "1" >>)
Sha384Name == Str(<< "S", "H", "A", "-", "3", "8", "4" >>)
Sha512Name == Str(<< "S", "H", "A", "-", "5", "1", "2" >>)
Md5Name == Str(<< "M", "D", "5" >>)

\* The digest algorithms subtle.digest implements, with the bytes of their
\* output.
ProviderDigestLength(algorithm) ==
  IF algorithm = Sha1Name THEN 20
  ELSE IF algorithm = Sha256Name THEN 32
  ELSE IF algorithm = Sha384Name THEN 48
  ELSE IF algorithm = Sha512Name THEN 64
  ELSE 0

RECURSIVE Mix(_, _)
\* A number below 256 that the bytes of a message determine.
Mix(data, seed) ==
  IF data = << >> THEN seed % 256
  ELSE Mix(Tail(data), (seed * 33 + Head(data) + 1) % 65536)

\* subtle.digest(algorithm, data): throws NotSupportedError for a name it
\* does not recognize, otherwise bytes that the algorithm and the data
\* determine, as many as the algorithm prescribes.
ProviderDigest(algorithm, data) ==
  IF ProviderDigestLength(algorithm) = 0 THEN [ok |-> FALSE, v |-> << >>]
  ELSE [ok |-> TRUE,
        v |-> [i \in 1..ProviderDigestLength(algorithm) |->
                 (Mix(data, Len(algorithm)) * i + (i \div 8)) % 256]]

\* A 32-bit integer as its two 16-bit halves (two's complement).
Int32(hi, lo) == [hi |-> hi, lo |-> lo]

\* h << 5 on 32 bits.
ShiftLeft5(h) == Int32((h.hi * 32 + (h.lo * 32) \div 65536) % 65536, (h.lo * 32) % 65536)

\* (a - b) on 32 bits.
Sub32(a, b) ==
  Int32((a.hi - b.hi - (IF a.lo < b.lo THEN 1 ELSE 0)) % 65536, (a.lo - b.lo) % 65536)

\* (a + byte) on 32 bits.
AddByte32(a, byte) == Int32((a.hi + (a.lo + byte) \div 65536) % 65536, (a.lo + byte) % 65536)

\* Math.abs of a 32-bit integer, as an unsigned 32-bit value.
Abs32(h) == IF h.hi >= 32768 THEN Sub32(Int32(0, 0), h) ELSE h

\* One round of the loop of simpleMD5:
\* hash = ((hash << 5) - hash + array[i]) & 0xffffffff
Md5Round(hash, byte) == AddByte32(Sub32(ShiftLeft5(hash), hash), byte)

RECURSIVE Md5Loop(_, _, _)
Md5Loop(array, i, hash) ==
  IF i > Len(array) THEN hash ELSE Md5Loop(array, i + 1, Md5Round(hash, array[i]))

\* Number.prototype.toString(16) of an unsigned 32-bit value: its eight hex
\* digits without the leading zeros.
ToString16(h) ==
  LET digits == Hex4(h.hi) \o Hex4(h.lo)
      first == CHOOSE i \in 1..8 :
                 /\ i = 8 \/ digits[i] # 48
                 /\ \A j \in 1..(i - 1) : digits[j] = 48
  IN  SubSeq(digits, first, 8)

\* simpleMD5(data): Math.abs(hash).toString(16).padStart(8, '0')
simpleMD5(data) == PadStart0(ToString16(Abs32(Md5Loop(data, 1, Int32(0, 0)))), 8)

\* hashArray.map(b => b.toString(16).padStart(2, '0')).join('')
HexOfBytes(bytes) == Concat([i \in DOMAIN bytes |-> PadStart0(NatToHex(bytes[i]), 2)])

\* HashOfDigest with a catch that returns an empty text instead of throwing.
HashOfDigestSwallowed(digest) ==
  IF digest.ok THEN [ok |-> TRUE, v |-> HexOfBytes(digest.v)]
  ELSE [ok |-> TRUE, v |-> << >>]

\* calculateHash once subtle.digest has answered: an error is rethrown as
\* "Failed to calculate hash".
HashOfDigest(digest) ==
  IF digest.ok THEN [ok |-> TRUE, v |-> HexOfBytes(digest.v)]
  ELSE [ok |-> FALSE, v |-> << >>]

\* calculateHash(data, algorithm)
calculateHash(data, algorithm) ==
  IF algorithm = Md5Name THEN [ok |-> TRUE, v |-> simpleMD5(DataBuffer(data))]
  ELSE HashOfDigest(ProviderDigest(algorithm, DataBuffer(data)))

(***************************************************************************)
(* DigitalSignatureSystem: generateSelfSignedCert                          *)
(***************************************************************************)

SelfSignedPublicKey ==
  Str(<< "R", "S", "A", " ", "P", "u", "b", "l", "i", "c", " ", "K", "e", "y" >>)

\* A CertificateInfo object.
CertificateInfo(subject, issuer, serialNumber, validFrom, validTo, publicKey) ==
  [subject |-> subject, issuer |-> issuer, serialNumber |-> serialNumber,
   validFrom |-> validFrom, validTo |-> validTo, publicKey |-> publicKey]

NoCertificateInfo == CertificateInfo(<< >>, << >>, << >>, << >>, << >>, << >>)

\* Math.random().toString(16).substring(2, 10).toUpperCase(), rnd being the
\* hex digits of the fraction Math.random() returned.
SerialNumber(rnd) == ToUpperCase(Substring(RandomToString(rnd), 2, 10))

\* The record generateSelfSignedCert builds once both dates are printed;
\* toISOString throws a RangeError for a date out of range.
SelfSignedRecord(subject, rnd, validFrom, validTo) ==
  IF validFrom.ok /\ validTo.ok
    THEN [ok |-> TRUE,
          v |-> CertificateInfo(subject, subject, SerialNumber(rnd), validFrom.v,
                                validTo.v, SelfSignedPublicKey)]
    ELSE [ok |-> FALSE, v |-> NoCertificateInfo]

\* generateSelfSignedCert adding validityDays to the clock reading as it
\* is, without the factor 24 * 60 * 60 * 1000.
generateSelfSignedCertInMs(pair, subject, days, t, rnd) ==
  SelfSignedRecord(subject, rnd, ToISOString(t), ToISOString(AddMs(t, days)))

\* generateSelfSignedCert(keyPair, subject, validityDays) at time t, with
\* validTo = new Date(now.getTime() + validityDays * 24 * 60 * 60 * 1000)
generateSelfSignedCert(pair, subject, days, t, rnd) ==
  SelfSignedRecord(subject, rnd, ToISOString(t), ToISOString(AddDays(t, days)))

(***************************************************************************)
(* The clock                                                               *)
(***************************************************************************)

\* How many times the clock advances in a run.
MaxTicks == 1

\* The instant the session starts: 2026-11-01T13:03:35.123Z.
SessionStart == Instant(20758, 47015123)

ClockInit == now = SessionStart /\ ticks = 0

\* A millisecond passes.
TickMs ==
  /\ ticks < MaxTicks
  /\ now' = AddMs(now, 1)
  /\ ticks' = ticks + 1

(***************************************************************************)
(* Timestamp tokens: calls of createTimestamp and verifyTimestamp          *)
(***************************************************************************)

\* n copies of the letter a.
Letters(n) == [i \in 1..n |-> 97]

\* Documents handed to createTimestamp: empty, plain ASCII, characters that
\* JSON escapes, Latin-1, a character above U+00FF, a surrogate pair, an
\* unpaired surrogate, and 99 letters followed by a surrogate pair (101
\* units, the pair across unit 100).
TimestampData ==
  { << >>,
    Str(<< "i", "n", "v", "o", "i", "c", "e", "-", "4", "2" >>),
    << 34, 92, 10 >>,
    << 233 >>,
    << 8364 >>,
    << 55357, 56832 >>,
    << 55296 >>,
    Letters(99) \o << 55357, 56832 >> }

\* Math.random() readings in base 36: zero, and one of eleven digits.
RandomBase36 ==
  { << >>, << 20, 3, 35, 0, 7, 29, 11, 1, 33, 9, 14 >> }

\* Token texts that no createTimestamp call produced: empty, not base64,
\* a character above U+00FF, and the base64 of: null, 1, {}, [], "abc",
\* a forged object with an invented timestamp, and broken JSON.
CraftedTokens ==
  { << >>,
    Str(<< "!", "!", "!" >>),
    << 8364 >>,
    Btoa(Str(<< "n", "u", "l", "l" >>)).v,
    Btoa(Str(<< "1" >>)).v,
    Btoa(Str(<< "{", "}" >>)).v,
    Btoa(Str(<< "[", "]" >>)).v,
    Btoa(Str(<< "dquote", "a", "b", "c", "dquote" >>)).v,
    Btoa(JsonStringifyObject(
           << [k |-> TimestampKey, v |-> Str(<< "1", "9", "9", "9" >>)],
              [k |-> AuthorityKey, v |-> Str(<< "m", "e" >>)] >>)).v,
    Btoa(Str(<< "{", "dquote", "a", "dquote", ":" >>)).v }

\* Characters written over one character of a token to corrupt it.
CorruptUnits == {65, 33}

\* The first n characters of a token, n below its length.
Truncated(token, n) == SubSeq(token, 1, n)

\* The token with character i overwritten by c.
Corrupted(token, i, c) == [token EXCEPT ![i] = c]

NoToken == [has |-> FALSE, token |-> << >>, timestamp |-> << >>, authority |-> << >>]

NoTimestampCall ==
  [op |-> "none", data |-> << >>, token |-> << >>, origin |-> "none",
   raised |-> FALSE, verdict |-> InvalidVerdict]

TsInit == tsIssued = NoToken /\ tsLast = NoTimestampCall

\* The caller is between two calls: the outcome of the previous call has
\* been taken.
TsIdle == tsLast.op = "none"

\* The record of a call createTimestamp(data) that returned r.
CreateCall(data, r) ==
  [op |-> "createTimestamp", data |-> data, token |-> r.v, origin |-> "none",
   raised |-> ~r.ok, verdict |-> InvalidVerdict]

\* The token the createTimestamp call returned at time t, if it returned
\* one; the token issued before, if it threw.
Issued(call, t, old) ==
  IF ~call.raised
    THEN [has |-> TRUE, token |-> call.token, timestamp |-> ToISOString(t).v,
          authority |-> AuthorityName]
    ELSE old

\* A call createTimestamp(data).
CreateTimestamp ==
  \E data \in TimestampData, rnd \in RandomBase36 :
    /\ TsIdle
    /\ tsLast' = CreateCall(data, createTimestamp(data, now, rnd))
    /\ tsIssued' = Issued(tsLast', now, tsIssued)
    /\ UNCHANGED << clockVars, otherThanTs >>

\* The record of a call verifyTimestamp(token) that returned verdict, the
\* token obtained as origin says.
VerifyRecord(token, origin, verdict) ==
  [op |-> "verifyTimestamp", data |-> << >>, token |-> token,
   origin |-> origin, raised |-> verdict.raised, verdict |-> verdict]

VerifyCall(token, origin) == VerifyRecord(token, origin, verifyTimestamp(token))

\* verifyTimestamp on the token createTimestamp returned.
VerifyIssued ==
  /\ TsIdle
  /\ tsIssued.has
  /\ tsLast' = VerifyCall(tsIssued.token, "issued")
  /\ UNCHANGED << tsIssued, clockVars, otherThanTs >>

\* verifyTimestamp on a truncated copy of the issued token.
VerifyTruncated ==
  /\ TsIdle
  /\ tsIssued.has
  /\ \E n \in 0..(Len(tsIssued.token) - 1) :
       tsLast' = VerifyCall(Truncated(tsIssued.token, n), "truncated")
  /\ UNCHANGED << tsIssued, clockVars, otherThanTs >>

\* verifyTimestamp on a corrupted copy of the issued token.
VerifyCorrupted ==
  /\ TsIdle
  /\ tsIssued.has
  /\ \E i \in DOMAIN tsIssued.token, c \in CorruptUnits :
       /\ tsIssued.token[i] # c
       /\ tsLast' = VerifyCall(Corrupted(tsIssued.token, i, c), "corrupted")
  /\ UNCHANGED << tsIssued, clockVars, otherThanTs >>

\* verifyTimestamp on a text from elsewhere.
VerifyCrafted ==
  /\ TsIdle
  /\ \E token \in CraftedTokens : tsLast' = VerifyCall(token, "crafted")
  /\ UNCHANGED << tsIssued, clockVars, otherThanTs >>

\* The caller takes the outcome of the call; the next call can be made.
TsReturn ==
  /\ ~TsIdle
  /\ tsLast' = NoTimestampCall
  /\ UNCHANGED << tsIssued, clockVars, otherThanTs >>

TsTick == TsIdle /\ TickMs /\ UNCHANGED << tsVars, otherThanTs >>

TsNext ==
  \/ CreateTimestamp
  \/ VerifyIssued
  \/ VerifyTruncated
  \/ VerifyCorrupted
  \/ VerifyCrafted
  \/ TsReturn
  \/ TsTick

(***************************************************************************)
(* Signatures: calls of generateKeyPair, signData and verifySignature      *)
(***************************************************************************)

\* How many key pairs are generated in a run.
MaxKeyPairs == 2

\* type KeySize = 2048 | 3072 | 4096
KeySizes == {2048, 3072, 4096}

Text(v) == [kind |-> "string", v |-> v]
Buffer(v) == [kind |-> "buffer", v |-> v]

Invoice42 == Str(<< "i", "n", "v", "o", "i", "c", "e", "-", "4", "2" >>)
Invoice43 == Str(<< "i", "n", "v", "o", "i", "c", "e", "-", "4", "3" >>)

\* Messages to sign and to verify: two invoices, an unpaired surrogate,
\* U+FFFD, and a buffer of three bytes.
Messages ==
  { Text(Invoice42), Text(Invoice43), Text(<< 55296 >>), Text(<< 65533 >>),
    Buffer(<< 0, 255, 10 >>) }

\* The salts the provider draws.
Salts == {7, 200}

\* Every CryptoKey of the generated pairs.
AllKeys ==
  { keyPairs[i].publicKey : i \in DOMAIN keyPairs }
    \cup { keyPairs[i].privateKey : i \in DOMAIN keyPairs }

\* Signature texts that signData did not return: not base64, empty, and the
\* base64 of three bytes.
CraftedSignatures ==
  { Str(<< "!", "!", "!" >>), << >>, Str(<< "A", "A", "A", "A" >>) }

NoSignature ==
  [has |-> FALSE, data |-> Text(<< >>), key |-> CryptoKey(0, "none", 0, {}),
   result |-> SignatureResult(<< >>, SessionStart)]

NoSignatureCall ==
  [op |-> "none", data |-> Text(<< >>), key |-> CryptoKey(0, "none", 0, {}),
   signature |-> << >>, origin |-> "none", raised |-> FALSE, value |-> FALSE,
   result |-> SignatureResult(<< >>, SessionStart)]

SigInit ==
  /\ keyPairs = << >>
  /\ sigIssued = NoSignature
  /\ sigLast = NoSignatureCall

\* The caller is between two calls.
SigIdle == sigLast.op = "none"

\* A call generateKeyPair(keySize).
GenerateKeyPair ==
  \E keySize \in KeySizes :
    /\ SigIdle
    /\ Len(keyPairs) < MaxKeyPairs
    /\ keyPairs' = Append(keyPairs, generateKeyPair(Len(keyPairs) + 1, keySize))
    /\ sigLast' = [NoSignatureCall EXCEPT !.op = "generateKeyPair",
                                          !.key = keyPairs'[Len(keyPairs')].publicKey]
    /\ UNCHANGED << sigIssued, clockVars, otherThanSig >>

\* The record of a call signData(data, key) that returned r.
SignCall(data, key, r) ==
  [NoSignatureCall EXCEPT !.op = "signData", !.data = data, !.key = key,
                          !.raised = ~r.ok, !.result = r.v]

\* A call signData(data, key) with any key of the generated pairs.
SignData ==
  \E data \in Messages, key \in AllKeys, salt \in Salts :
    /\ SigIdle
    /\ sigLast' = SignCall(data, key, signData(data, key, now, salt))
    /\ sigIssued' = IF sigLast'.raised THEN sigIssued
                    ELSE [has |-> TRUE, data |-> data, key |-> key,
                          result |-> sigLast'.result]
    /\ UNCHANGED << keyPairs, clockVars, otherThanSig >>

\* The record of a call verifySignature(data, signature, key) that returned
\* r, the signature text obtained as origin says.
VerifySignatureCall(data, signature, origin, key, r) ==
  [NoSignatureCall EXCEPT !.op = "verifySignature", !.data = data, !.key = key,
                          !.signature = signature, !.origin = origin,
                          !.raised = ~r.ok, !.value = r.v]

\* A call verifySignature with the signature text signData returned.
VerifyIssuedSignature ==
  \E data \in Messages, key \in AllKeys :
    /\ SigIdle
    /\ sigIssued.has
    /\ sigLast' = VerifySignatureCall(data, sigIssued.result.signature, "issued", key,
                    verifySignature(data, sigIssued.result.signature, key))
    /\ UNCHANGED << keyPairs, sigIssued, clockVars, otherThanSig >>

\* A call verifySignature with a signature text from elsewhere.
VerifyCraftedSignature ==
  \E data \in Messages, key \in AllKeys, signature \in CraftedSignatures :
    /\ SigIdle
    /\ sigLast' = VerifySignatureCall(data, signature, "crafted", key,
                    verifySignature(data, signature, key))
    /\ UNCHANGED << keyPairs, sigIssued, clockVars, otherThanSig >>

\* The caller takes the outcome of the call.
SigReturn ==
  /\ ~SigIdle
  /\ sigLast' = NoSignatureCall
  /\ UNCHANGED << keyPairs, sigIssued, clockVars, otherThanSig >>

SigNext ==
  \/ GenerateKeyPair
  \/ SignData
  \/ VerifyIssuedSignature
  \/ VerifyCraftedSignature
  \/ SigReturn

(***************************************************************************)
(* Digests: calls of calculateHash                                         *)
(***************************************************************************)

\* The longest text handed to calculateHash.
MaxHashText == 3

\* The code units of those texts: a letter, NUL, a Latin-1 letter.
HashUnits == {97, 0, 233}

\* Every text over HashUnits of at most MaxHashText units.
HashTexts == UNION { [1..n -> HashUnits] : n \in 0..MaxHashText }

\* The algorithm names handed to calculateHash: the HashAlgorithm type, and
\* a name outside it.
HashAlgorithms ==
  { Sha1Name, Sha256Name, Sha384Name, Sha512Name, Md5Name,
    Str(<< "S", "H", "A", "-", "3" >>) }

NoHashCall ==
  [op |-> "none", data |-> Text(<< >>), algorithm |-> << >>, raised |-> FALSE,
   hash |-> << >>]

HashInit == hashLast = NoHashCall

HashIdle == hashLast.op = "none"

\* The record of a call calculateHash(data, algorithm) that returned r.
HashCall(data, algorithm, r) ==
  [op |-> "calculateHash", data |-> data, algorithm |-> algorithm,
   raised |-> ~r.ok, hash |-> r.v]

\* A call calculateHash(data, algorithm) on a text.
CalculateHash ==
  \E text \in HashTexts, algorithm \in HashAlgorithms :
    /\ HashIdle
    /\ hashLast' = HashCall(Text(text), algorithm, calculateHash(Text(text), algorithm))
    /\ UNCHANGED << clockVars, otherThanHash >>

\* A call calculateHash(data, algorithm) on a buffer.
CalculateHashOfBuffer ==
  \E algorithm \in HashAlgorithms :
    /\ HashIdle
    /\ hashLast' = HashCall(Buffer(Invoice42), algorithm,
                            calculateHash(Buffer(Invoice42), algorithm))
    /\ UNCHANGED << clockVars, otherThanHash >>

\* The caller takes the outcome of the call.
HashReturn ==
  /\ ~HashIdle
  /\ hashLast' = NoHashCall
  /\ UNCHANGED << clockVars, otherThanHash >>

HashNext ==
  \/ CalculateHash
  \/ CalculateHashOfBuffer
  \/ HashReturn

(***************************************************************************)
(* Certificates: calls of generateSelfSignedCert                           *)
(***************************************************************************)

CommonNameA == Str(<< "C", "N", "=", "a" >>)

\* The subjects handed to generateSelfSignedCert: none, blank, a name.
CertSubjects == { << >>, << 32 >>, CommonNameA }

\* The validity periods handed to generateSelfSignedCert.
CertDays == { -5, 0, 1, 30, 365, 999999999 }

\* The hex digits of the fractions Math.random() returns: 0, 0.5, and
\* fractions of thirteen and of fourteen digits.
RandomHex ==
  { << >>, << 8 >>,
    << 10, 3, 15, 0, 7, 12, 11, 1, 13, 9, 14, 2, 8 >>,
    << 0, 0, 4, 11, 9, 1, 15, 6, 2, 10, 7, 3, 5, 8 >> }

\* A key pair object without key material.
InvalidKeyPair == [publicKey |-> NoKey, privateKey |-> NoKey]

\* The key pairs handed to generateSelfSignedCert.
CertKeyPairs == { generateKeyPair(1, 2048), generateKeyPair(2, 4096), InvalidKeyPair }

NoCertCall ==
  [op |-> "none", pair |-> InvalidKeyPair, subject |-> << >>, days |-> 0,
   raised |-> FALSE, cert |-> NoCertificateInfo]

CertInit == certLast = NoCertCall

CertIdle == certLast.op = "none"

\* The record of a call generateSelfSignedCert(pair, subject, days) that
\* returned r.
CertCall(pair, subject, days, r) ==
  [op |-> "generateSelfSignedCert", pair |-> pair, subject |-> subject,
   days |-> days, raised |-> ~r.ok, cert |-> r.v]

\* A call generateSelfSignedCert(pair, subject, days).
GenerateSelfSignedCert ==
  \E pair \in CertKeyPairs, subject \in CertSubjects, days \in CertDays,
     rnd \in RandomHex :
    /\ CertIdle
    /\ certLast' = CertCall(pair, subject, days,
                            generateSelfSignedCert(pair, subject, days, now, rnd))
    /\ UNCHANGED << clockVars, otherThanCert >>

\* The caller takes the outcome of the call.
CertReturn ==
  /\ ~CertIdle
  /\ certLast' = NoCertCall
  /\ UNCHANGED << clockVars, otherThanCert >>

\* Time passes between two calls.
CertTick == CertIdle /\ TickMs /\ UNCHANGED << certVars, otherThanCert >>

CertNext ==
  \/ GenerateSelfSignedCert
  \/ CertReturn
  \/ CertTick

(***************************************************************************)
(* CertificateManager                                                      *)
(***************************************************************************)

\* The certificate objects the component may create.
MaxCerts == 2

\* parseInt(text) from position i, after the sign: NaN without a digit.
ParseIntDigits(s, i, sign) ==
  IF SkipDigits(s, i) = i THEN [nan |-> TRUE, v |-> 0]
  ELSE [nan |-> FALSE, v |-> sign * DecimalValue(SubSeq(s, i, SkipDigits(s, i) - 1))]

\* parseInt(text) from position i, after the leading white space.
ParseIntSigned(s, i) ==
  IF UnitAt(s, i) = 45 THEN ParseIntDigits(s, i + 1, -1)
  ELSE IF UnitAt(s, i) = 43 THEN ParseIntDigits(s, i + 1, 1)
  ELSE ParseIntDigits(s, i, 1)

\* parseInt(text) of a text that has no 0x prefix.
ParseInt(s) == ParseIntSigned(s, SkipWhile(s, 1, {9, 10, 11, 12, 13, 32, 160}))

\* Where the exponent of a floating-point number that starts at c ends, 0
\* when it has no digit.
FloatExponentDigits(s, d) == IF SkipDigits(s, d) > d THEN SkipDigits(s, d) ELSE 0
FloatExponent(s, c) ==
  IF UnitAt(s, c) \notin {69, 101} THEN c
  ELSE IF UnitAt(s, c + 1) \in {43, 45} THEN FloatExponentDigits(s, c + 2)
  ELSE FloatExponentDigits(s, c + 1)

\* Where the fraction that follows the integer digits a..(b - 1) ends, 0 when
\* the number has no digit or a point without digits.
FloatFraction(s, a, b) ==
  IF UnitAt(s, b) = 46
    THEN (IF SkipDigits(s, b + 1) > b + 1 THEN SkipDigits(s, b + 1) ELSE 0)
    ELSE (IF b > a THEN b ELSE 0)

FloatMantissa(s, a) == FloatFraction(s, a, SkipDigits(s, a))

FloatEnd(s, c) == IF c = 0 THEN 0 ELSE FloatExponent(s, c)

\* Whether a text is a valid floating-point number of HTML.
IsValidFloatingPoint(s) ==
  FloatEnd(s, FloatMantissa(s, IF UnitAt(s, 1) = 45 THEN 2 ELSE 1)) = Len(s) + 1

\* The value of <input type="number"> after the user typed a text: the
\* text when it is a valid floating-point number, empty otherwise.
InputNumberValue(text) == IF IsValidFloatingPoint(text) THEN text ELSE << >>

\* parseInt(e.target.value) || 365
ValidityOfParsed(n) == IF n.nan \/ n.v = 0 THEN 365 ELSE n.v
ValidityOfInput(value) == ValidityOfParsed(ParseInt(value))

\* A certificate object: ref tells one object from another of equal fields.
CertObject(ref, info) == [ref |-> ref, info |-> info]

Null == CertObject(0, NoCertificateInfo)

NoKeyPair == generateKeyPair(0, 0)

NoPending == [active |-> FALSE, subject |-> << >>, days |-> 0]

NoDownload == << >>

CmInit ==
  /\ certificates = << >>
  /\ newCertSubject = << >>
  /\ validityDays = 365
  /\ selectedCert = Null
  /\ importCertPem = << >>
  /\ cmKeyPair = NoKeyPair
  /\ cmIsGenerating = FALSE
  /\ cmPending = NoPending
  /\ cmObjects = 0
  /\ cmToast = "none"
  /\ cmDownload = NoDownload

\* The texts typed into the subject input.
SubjectTexts == { << >>, << 32 >>, CommonNameA }

\* The texts typed into the validity input.
ValidityTexts ==
  { Str(<< "-", "5" >>), Str(<< "0" >>), Str(<< "a", "b", "c" >>),
    Str(<< "9", "9", "9", "9", "9", "9", "9", "9", "9" >>) }

\* The texts typed into the import area.
PemTexts == { << >>, Str(<< "x" >>) }

\* The hex digits of the fraction Math.random() returns in the component.
CmRandomHex == { << 10, 3, 15, 0, 7, 12, 11, 1, 13, 9, 14, 2, 8 >> }

\* Whether the component may create one more certificate object.
CmRoom == cmObjects + (IF cmPending.active THEN 1 ELSE 0) < MaxCerts

\* onChange of the subject input
SetNewCertSubject ==
  \E text \in SubjectTexts :
    /\ text # newCertSubject
    /\ newCertSubject' = text
    /\ UNCHANGED << certificates, validityDays, selectedCert, importCertPem,
                    cmKeyPair, cmIsGenerating, cmPending, cmObjects, cmToast,
                    clockVars, otherThanCm >>

\* onChange of the validity input
SetValidityDays ==
  \E text \in ValidityTexts :
    /\ validityDays' = ValidityOfInput(InputNumberValue(text))
    /\ validityDays' # validityDays
    /\ UNCHANGED << certificates, newCertSubject, selectedCert, importCertPem,
                    cmKeyPair, cmIsGenerating, cmPending, cmObjects, cmToast,
                    clockVars, otherThanCm >>

\* onChange of the import area
SetImportCertPem ==
  \E text \in PemTexts :
    /\ text # importCertPem
    /\ importCertPem' = text
    /\ UNCHANGED << certificates, newCertSubject, validityDays, selectedCert,
                    cmKeyPair, cmIsGenerating, cmPending, cmObjects, cmToast,
                    clockVars, otherThanCm >>

\* The texts pasted into the import area: white space, the first line of a
\* certificate in PEM, and a text that is no certificate.
PastedTexts ==
  { << 32, 10, 9 >>,
    PemBegin(Str(<< "C", "E", "R", "T", "I", "F", "I", "C", "A", "T", "E" >>)) \o << 10 >>,
    Str(<< "n", "o", " ", "c", "e", "r", "t" >>) }

\* onChange of the import area when a text is pasted
PasteImportCertPem ==
  \E text \in PastedTexts :
    /\ text # importCertPem
    /\ importCertPem' = text
    /\ UNCHANGED << certificates, newCertSubject, validityDays, selectedCert,
                    cmKeyPair, cmIsGenerating, cmPending, cmObjects, cmToast,
                    clockVars, otherThanCm >>

\* generateCertificate up to its await: the button is enabled; a blank
\* subject ends the handler with a toast, otherwise the component is busy
\* until the key pair arrives. The closure keeps the subject and the validity
\* of the render it was created in.
GenerateCertificate ==
  /\ ~cmIsGenerating /\ ~IsBlank(newCertSubject)
  /\ CmRoom
  /\ IF IsBlank(newCertSubject)
       THEN /\ cmToast' = "Missing Information"
            /\ UNCHANGED << cmIsGenerating, cmPending >>
       ELSE /\ cmIsGenerating' = TRUE
            /\ cmPending' = [active |-> TRUE, subject |-> newCertSubject,
                             days |-> validityDays]
            /\ UNCHANGED cmToast
  /\ UNCHANGED << certificates, newCertSubject, validityDays, selectedCert,
                  importCertPem, cmKeyPair, cmObjects, clockVars, otherThanCm >>

\* The rest of generateCertificate once generateSelfSignedCert has returned
\* r: the record is appended and selected and the form is cleared, or the
\* error is caught and shown.
GenerateCertificateEnd(r) ==
  /\ cmIsGenerating' = FALSE
  /\ cmPending' = NoPending
  /\ IF r.ok
       THEN /\ certificates' = Append(certificates, CertObject(cmObjects + 1, r.v))
            /\ selectedCert' = CertObject(cmObjects + 1, r.v)
            /\ cmObjects' = cmObjects + 1
            /\ cmToast' = "Certificate Generated"
            /\ newCertSubject' = << >>
            /\ validityDays' = 365
       ELSE /\ cmToast' = "Error"
            /\ UNCHANGED << certificates, selectedCert, cmObjects, newCertSubject,
                            validityDays >>

\* generateCertificate after its await, the key pair generated.
GenerateCertificateResolved ==
  \E rnd \in CmRandomHex :
    /\ cmPending.active
    /\ cmKeyPair' = generateKeyPair(cmObjects + 1, 2048)
    /\ GenerateCertificateEnd(
         generateSelfSignedCert(generateKeyPair(cmObjects + 1, 2048),
                                cmPending.subject, cmPending.days, now, rnd))
    /\ UNCHANGED << importCertPem, clockVars, otherThanCm >>

\* generateCertificate after its await, generateKeyPair having thrown.
GenerateCertificateRejected ==
  /\ cmPending.active
  /\ cmToast' = "Error"
  /\ cmIsGenerating' = FALSE
  /\ cmPending' = NoPending
  /\ UNCHANGED << certificates, newCertSubject, validityDays, selectedCert,
                  importCertPem, cmKeyPair, cmObjects, clockVars, otherThanCm >>

ImportedSubject ==
  Str(<< "I", "m", "p", "o", "r", "t", "e", "d", " ", "C", "e", "r", "t", "i", "f",
         "i", "c", "a", "t", "e" >>)

ExternalIssuer == Str(<< "E", "x", "t", "e", "r", "n", "a", "l", " ", "C", "A" >>)

ImportedPublicKey == SelfSignedPublicKey \o Str(<< " ", "(", "I", "m", "p", "o", "r", "t", "e", "d", ")" >>)

\* An imported record that names its subject as its issuer.
ImportedRecordSelfIssued(t, lag, rnd) ==
  CertificateInfo(ImportedSubject, ImportedSubject, SerialNumber(rnd),
                  ToISOString(t).v, ToISOString(AddDays(AddMs(t, lag), 365)).v,
                  ImportedPublicKey)

\* The stub record importCertificate builds; the clock is read twice, lag
\* being the milliseconds between the two readings.
ImportedRecord(t, lag, rnd) ==
  CertificateInfo(ImportedSubject, ExternalIssuer, SerialNumber(rnd),
                  ToISOString(t).v, ToISOString(AddDays(AddMs(t, lag), 365)).v,
                  ImportedPublicKey)

\* importCertificate: the button is enabled, that is, the text is not blank.
ImportCertificate ==
  \E rnd \in CmRandomHex, lag \in {0, 1} :
    /\ ~IsBlank(importCertPem)
    /\ CmRoom
    /\ cmObjects' = cmObjects + 1
    /\ importCertPem' = << >>
    /\ cmToast' = "Certificate Imported"
    /\ certificates' = Append(certificates,
                              CertObject(cmObjects + 1, ImportedRecord(now, lag, rnd)))
    /\ selectedCert' = CertObject(cmObjects + 1, ImportedRecord(now, lag, rnd))
    /\ UNCHANGED << newCertSubject, validityDays, cmKeyPair, cmIsGenerating,
                    cmPending, clockVars, otherThanCm >>

\* A filter that drops the last record whatever the index.
WithoutLast(certs, index) == SubSeq(certs, 1, Len(certs) - 1)

\* prev.filter((_, i) => i !== index), index counted from 1.
WithoutIndex(certs, index) ==
  [i \in 1..(Len(certs) - 1) |-> IF i < index THEN certs[i] ELSE certs[i + 1]]

\* A deleteCertificate that leaves the selection as it is.
DeleteCertificateKeepSelection(index) ==
  /\ certificates' = WithoutIndex(certificates, index)
  /\ cmToast' = "Certificate Deleted"
  /\ UNCHANGED << newCertSubject, validityDays, importCertPem, cmKeyPair, selectedCert,
                  cmIsGenerating, cmPending, cmObjects, clockVars, otherThanCm >>

\* deleteCertificate(index)
DeleteCertificateAt(index) ==
  /\ certificates' = WithoutIndex(certificates, index)
  /\ selectedCert' = IF selectedCert.ref = certificates[index].ref THEN Null
                     ELSE selectedCert
  /\ cmToast' = "Certificate Deleted"
  /\ UNCHANGED << newCertSubject, validityDays, importCertPem, cmKeyPair,
                  cmIsGenerating, cmPending, cmObjects, clockVars, otherThanCm >>

\* Delete of the certificate at an index
DeleteCertificate == \E index \in DOMAIN certificates : DeleteCertificateAt(index)

CertificateLabel == Str(<< "C", "E", "R", "T", "I", "F", "I", "C", "A", "T", "E" >>)

\* The properties of a CertificateInfo object in the order of their creation.
CertificateMembers(cert) ==
  << [k |-> Str(<< "s", "u", "b", "j", "e", "c", "t" >>), v |-> cert.subject],
     [k |-> Str(<< "i", "s", "s", "u", "e", "r" >>), v |-> cert.issuer],
     [k |-> Str(<< "s", "e", "r", "i", "a", "l", "N", "u", "m", "b", "e", "r" >>),
      v |-> cert.serialNumber],
     [k |-> Str(<< "v", "a", "l", "i", "d", "F", "r", "o", "m" >>), v |-> cert.validFrom],
     [k |-> Str(<< "v", "a", "l", "i", "d", "T", "o" >>), v |-> cert.validTo],
     [k |-> Str(<< "p", "u", "b", "l", "i", "c", "K", "e", "y" >>), v |-> cert.publicKey] >>

\* `certificate_${cert.serialNumber}.crt`
DownloadName(cert) ==
  Str(<< "c", "e", "r", "t", "i", "f", "i", "c", "a", "t", "e", "_" >>)
    \o cert.serialNumber \o Str(<< ".", "c", "r", "t" >>)

\* The file exportCertificate makes of what btoa returned, ok = FALSE when
\* btoa throws.
DownloadOfEncoded(cert, encoded) ==
  IF encoded.ok
    THEN [ok |-> TRUE, name |-> DownloadName(cert), text |-> PemOf(CertificateLabel, encoded.v)]
    ELSE [ok |-> FALSE, name |-> << >>, text |-> << >>]

\* exportCertificate(cert)
exportCertificate(cert) ==
  DownloadOfEncoded(cert, Btoa(JsonStringifyObject(CertificateMembers(cert))))

\* The name of the browser's latest download after exportCertificate.
Downloaded(file, before) == IF file.ok THEN file.name ELSE before

\* Export of the certificate at an index
ExportCertificate ==
  \E index \in DOMAIN certificates :
    /\ UNCHANGED << clockVars, otherThanDownload >>
    /\ cmDownload' = Downloaded(exportCertificate(certificates[index].info), cmDownload)

\* View Details of the certificate at an index
ViewDetails ==
  \E index \in DOMAIN certificates :
    /\ selectedCert # certificates[index]
    /\ selectedCert' = certificates[index]
    /\ UNCHANGED << certificates, newCertSubject, validityDays, importCertPem,
                    cmKeyPair, cmIsGenerating, cmPending, cmObjects, cmToast,
                    clockVars, otherThanCm >>

\* Close Details, shown while a certificate is selected
CloseDetails ==
  /\ selectedCert # Null
  /\ selectedCert' = Null
  /\ UNCHANGED << certificates, newCertSubject, validityDays, importCertPem,
                  cmKeyPair, cmIsGenerating, cmPending, cmObjects, cmToast,
                  clockVars, otherThanCm >>

\* Time passes.
CmTick == TickMs /\ UNCHANGED << cmVars, otherThanCm >>

CmNext ==
  \/ SetNewCertSubject
  \/ SetValidityDays
  \/ SetImportCertPem
  \/ GenerateCertificate
  \/ GenerateCertificateResolved
  \/ GenerateCertificateRejected
  \/ ImportCertificate
  \/ DeleteCertificate
  \/ ViewDetails
  \/ CloseDetails
  \/ CmTick

\* The operations on the certificate store, Export among them, and the
\* typing that enables them, at one instant of the clock; the validity stays
\* at its default.
StoreNext ==
  \/ SetNewCertSubject
  \/ SetImportCertPem
  \/ PasteImportCertPem
  \/ GenerateCertificate
  \/ GenerateCertificateResolved
  \/ GenerateCertificateRejected
  \/ ImportCertificate
  \/ DeleteCertificate
  \/ ViewDetails
  \/ ExportCertificate

(***************************************************************************)
(* CertificateManager: the status badges of a certificate                  *)
(***************************************************************************)

\* new Date(validTo) < t; no instant is before another when the text is not
\* a date.
DateBefore(validTo, t) == ParseISO(validTo).ok /\ Before(ParseISO(validTo).v, t)

\* isExpired(validTo), its new Date() reading t.
isExpired(validTo, t) == DateBefore(validTo, t)

\* thirtyDaysFromNow: setDate(getDate() + 30) on the reading t moves the
\* local calendar date; shift is the change of the zone's offset from UTC
\* between the two dates, in milliseconds.
ThirtyDaysFrom(t, shift) == AddMs(AddDays(t, 30), shift)

\* isExpiringSoon(validTo), t its own reading of the clock and u that of
\* the isExpired call inside it.
isExpiringSoon(validTo, t, shift, u) ==
  DateBefore(validTo, ThirtyDaysFrom(t, shift)) /\ ~isExpired(validTo, u)

\* The badges one rendering shows for a certificate; r holds the seven
\* readings of the clock the three conditions take, in their order.
Badges(validTo, r, shift) ==
  (IF isExpired(validTo, r[1]) THEN {"Expired"} ELSE {})
    \cup (IF isExpiringSoon(validTo, r[2], shift, r[3]) /\ ~isExpired(validTo, r[4])
            THEN {"Expiring Soon"} ELSE {})
    \cup (IF ~isExpired(validTo, r[5]) /\ ~isExpiringSoon(validTo, r[6], shift, r[7])
            THEN {"Valid"} ELSE {})

\* How far from the first clock reading of a rendering the validTo of the
\* rendered certificate lies, as [days, milliseconds].
StatusOffsets ==
  { << -5, 0 >>, << 0, -1 >>, << 0, 0 >>, << 0, 1 >>, << 29, 0 >>, << 30, -1 >>,
    << 30, 0 >>, << 30, 1 >>, << 30, 1800000 >>, << 365, 0 >> }

\* The changes of the zone's offset within thirty days: none, or the hour
\* by which daylight saving time starts or ends.
ZoneShifts == { -3600000, 0, 3600000 }

\* Seven readings of a clock that passes from t to the next millisecond
\* after the first k of them.
Readings(t, k) == [i \in 1..7 |-> IF i <= k THEN t ELSE AddMs(t, 1)]

NoRendering ==
  [op |-> "none", validTo |-> << >>, at |-> SessionStart, last |-> SessionStart,
   shift |-> 0, badges |-> {}]

StatusInit == statusLast = NoRendering

StatusIdle == statusLast.op = "none"

\* A rendering of the card of a certificate whose validTo is the text of an
\* instant near the time of the rendering.
RenderBadges ==
  \E offset \in StatusOffsets, k \in 0..7, shift \in ZoneShifts :
    /\ StatusIdle
    /\ statusLast' =
         [op |-> "render",
          validTo |-> ToISOString(AddMs(AddDays(now, offset[1]), offset[2])).v,
          at |-> Readings(now, k)[1], last |-> Readings(now, k)[7], shift |-> shift,
          badges |-> Badges(ToISOString(AddMs(AddDays(now, offset[1]), offset[2])).v,
                            Readings(now, k), shift)]
    /\ UNCHANGED << clockVars, otherThanStatus >>

\* The rendering is over.
RenderDone ==
  /\ ~StatusIdle
  /\ statusLast' = NoRendering
  /\ UNCHANGED << clockVars, otherThanStatus >>

\* Time passes between two renderings.
StatusTick == StatusIdle /\ TickMs /\ UNCHANGED << statusVars, otherThanStatus >>

StatusNext ==
  \/ RenderBadges
  \/ RenderDone
  \/ StatusTick

(***************************************************************************)
(* Keys: calls of the export and import operations                         *)
(***************************************************************************)

\* The generated key pairs whose keys are exported.
KeyPairChoices ==
  { generateKeyPair(1, keySize) : keySize \in KeySizes } \cup { generateKeyPair(2, 2048) }

NoExport == [has |-> FALSE, pair |-> NoKeyPair, pem |-> << >>]

NoImport == [has |-> FALSE, pair |-> NoKeyPair, key |-> NoKey, origin |-> "none"]

NoKeyCall ==
  [op |-> "none", key |-> NoKey, origin |-> "none", raised |-> FALSE,
   result |-> NoKey, value |-> FALSE]

KeyInit ==
  /\ keyExported = NoExport
  /\ keyImported = NoImport
  /\ keyLast = NoKeyCall

KeyIdle == keyLast.op = "none"

\* The record of a call op(key) of an export that returned r.
ExportCall(op, key, r) ==
  [NoKeyCall EXCEPT !.op = op, !.key = key, !.raised = ~r.ok]

\* What is kept of an export of a key of a pair that returned r.
Exported(pair, r) ==
  IF r.ok THEN [has |-> TRUE, pair |-> pair, pem |-> r.v] ELSE keyExported

\* A call exportPublicKey(key) with a key of a generated pair.
ExportPublicKey ==
  \E pair \in KeyPairChoices, type \in {"publicKey", "privateKey"} :
    /\ KeyIdle
    /\ keyLast' = ExportCall("exportPublicKey", pair[type], exportPublicKey(pair[type]))
    /\ keyExported' = Exported(pair, exportPublicKey(pair[type]))
    /\ UNCHANGED << keyImported, clockVars, otherThanKey >>

\* A call exportPrivateKey(key) with a key of a generated pair.
ExportPrivateKey ==
  \E pair \in KeyPairChoices, type \in {"publicKey", "privateKey"} :
    /\ KeyIdle
    /\ keyLast' = ExportCall("exportPrivateKey", pair[type], exportPrivateKey(pair[type]))
    /\ keyExported' = Exported(pair, exportPrivateKey(pair[type]))
    /\ UNCHANGED << keyImported, clockVars, otherThanKey >>

\* What a holder of an exported PEM text hands to an import: the text, its
\* first hundred units, or its base64 alone on one line.
PemVariants == { "exported", "truncated", "unframed" }

PemVariant(pem, variant) ==
  IF variant = "exported" THEN pem
  ELSE IF variant = "truncated" THEN SubSeq(pem, 1, 100)
  ELSE PemContents(PemContents(pem, PublicKeyLabel), PrivateKeyLabel)

\* PEM texts that no export returned: empty, not base64, a frame without
\* content, a frame around the base64 of three bytes.
CraftedPems ==
  { << >>,
    Str(<< "n", "o", "t", " ", "a", " ", "k", "e", "y", "!" >>),
    PemBegin(PublicKeyLabel) \o << 10 >> \o PemEnd(PublicKeyLabel),
    PemOf(PrivateKeyLabel, Str(<< "A", "A", "A", "A" >>)) }

\* The record of a call op(pem) of an import that returned r.
ImportCall(op, origin, r) ==
  [NoKeyCall EXCEPT !.op = op, !.origin = origin, !.raised = ~r.ok, !.result = r.v]

\* What is kept of an import that returned r.
Imported(pair, origin, r) ==
  IF r.ok THEN [has |-> TRUE, pair |-> pair, key |-> r.v, origin |-> origin]
  ELSE keyImported

\* A call importPublicKey(pem) with a PEM text obtained from an export.
ImportPublicKey ==
  \E variant \in PemVariants :
    /\ KeyIdle
    /\ keyExported.has
    /\ keyLast' = ImportCall("importPublicKey", variant,
                             importPublicKey(PemVariant(keyExported.pem, variant)))
    /\ keyImported' = Imported(keyExported.pair, variant,
                               importPublicKey(PemVariant(keyExported.pem, variant)))
    /\ UNCHANGED << keyExported, clockVars, otherThanKey >>

\* A call importPrivateKey(pem) with a PEM text obtained from an export.
ImportPrivateKey ==
  \E variant \in PemVariants :
    /\ KeyIdle
    /\ keyExported.has
    /\ keyLast' = ImportCall("importPrivateKey", variant,
                             importPrivateKey(PemVariant(keyExported.pem, variant)))
    /\ keyImported' = Imported(keyExported.pair, variant,
                               importPrivateKey(PemVariant(keyExported.pem, variant)))
    /\ UNCHANGED << keyExported, clockVars, otherThanKey >>

\* A call importPublicKey(pem) with a PEM text from elsewhere.
ImportCraftedPublicKey ==
  \E pem \in CraftedPems :
    /\ KeyIdle
    /\ keyLast' = ImportCall("importPublicKey", "crafted", importPublicKey(pem))
    /\ keyImported' = Imported(NoKeyPair, "crafted", importPublicKey(pem))
    /\ UNCHANGED << keyExported, clockVars, otherThanKey >>

\* A call importPrivateKey(pem) with a PEM text from elsewhere.
ImportCraftedPrivateKey ==
  \E pem \in CraftedPems :
    /\ KeyIdle
    /\ keyLast' = ImportCall("importPrivateKey", "crafted", importPrivateKey(pem))
    /\ keyImported' = Imported(NoKeyPair, "crafted", importPrivateKey(pem))
    /\ UNCHANGED << keyExported, clockVars, otherThanKey >>

\* A call signData(data, key) with the key an import returned.
SignWithImported ==
  \E data \in { Text(Invoice42), Buffer(<< 0, 255, 10 >>) }, salt \in Salts :
    /\ KeyIdle
    /\ keyImported.has
    /\ keyLast' = [NoKeyCall EXCEPT
                     !.op = "signData", !.key = keyImported.key,
                     !.origin = keyImported.origin,
                     !.raised = ~signData(data, keyImported.key, now, salt).ok]
    /\ UNCHANGED << keyExported, keyImported, clockVars, otherThanKey >>

\* verifySignature(data, signature, verifier) on the result of a call of
\* signData; an error of either call is raised.
VerifySigned(data, signed, verifier) ==
  IF signed.ok THEN verifySignature(data, signed.v.signature, verifier)
  ELSE [ok |-> FALSE, v |-> FALSE]

\* signData with one key, then verifySignature with another.
SignThenVerify(data, signer, verifier, salt) ==
  VerifySigned(data, signData(data, signer, SessionStart, salt), verifier)

\* The record of a sign-then-verify with the imported key in the place of
\* the key it was exported from, which returned r.
UseCall(r) ==
  [NoKeyCall EXCEPT !.op = "signThenVerify", !.key = keyImported.key,
                    !.origin = keyImported.origin, !.raised = ~r.ok, !.value = r.v]

\* The imported key used with the other key of the pair it was exported
\* from: an imported public key verifies what the pair's private key signed,
\* an imported private key signs what the pair's public key verifies.
UseImported ==
  \E data \in { Text(Invoice42), Buffer(<< 0, 255, 10 >>) }, salt \in Salts :
    /\ KeyIdle
    /\ keyImported.has
    /\ keyImported.origin # "crafted"
    /\ keyLast' = IF keyImported.key.type = "public"
                    THEN UseCall(SignThenVerify(data, keyImported.pair.privateKey,
                                                keyImported.key, salt))
                    ELSE UseCall(SignThenVerify(data, keyImported.key,
                                                keyImported.pair.publicKey, salt))
    /\ UNCHANGED << keyExported, keyImported, clockVars, otherThanKey >>

\* A call verifySignature(data, signature, key) with the key an import
\* returned, on a signature the private key of its pair made.
VerifyWithImported ==
  \E data \in { Text(Invoice42), Buffer(<< 0, 255, 10 >>) }, salt \in Salts :
    /\ KeyIdle
    /\ keyImported.has
    /\ keyImported.origin # "crafted"
    /\ keyLast' = [UseCall(SignThenVerify(data, keyImported.pair.privateKey,
                                          keyImported.key, salt))
                     EXCEPT !.op = "verifySignature"]
    /\ UNCHANGED << keyExported, keyImported, clockVars, otherThanKey >>

\* The caller takes the outcome of the call.
KeyReturn ==
  /\ ~KeyIdle
  /\ keyLast' = NoKeyCall
  /\ UNCHANGED << keyExported, keyImported, clockVars, otherThanKey >>

KeyNext ==
  \/ ExportPublicKey
  \/ ExportPrivateKey
  \/ ImportPublicKey
  \/ ImportPrivateKey
  \/ ImportCraftedPublicKey
  \/ ImportCraftedPrivateKey
  \/ SignWithImported
  \/ UseImported
  \/ VerifyWithImported
  \/ KeyReturn

(***************************************************************************)
(* Calls of the core operations whose steps may fail                       *)
(***************************************************************************)

\* A call of a core operation: input is what it was called with, failed
\* tells whether its decoding step or the provider failed, raised whether
\* the call threw, result what it returned when it did not throw.
CoreCall(op, input, failed, r) ==
  [op |-> op, input |-> input, failed |-> failed, raised |-> ~r.ok,
   result |-> IF r.ok THEN << r.v >> ELSE << >>]

NoCoreCall == [op |-> "none", input |-> << >>, failed |-> FALSE, raised |-> FALSE,
               result |-> << >>]

CoreInit == coreLast = NoCoreCall

CoreIdle == coreLast.op = "none"

\* The keys handed to the exports and to signData: every key of the
\* generated pairs, and no key.
CoreKeys ==
  { pair.publicKey : pair \in KeyPairChoices }
    \cup { pair.privateKey : pair \in KeyPairChoices } \cup { NoKey }

\* The PEM texts handed to the imports: what the exports return for the
\* generated pairs, as exported, truncated and unframed, and crafted texts.
CorePems ==
  { PemVariant(exportPublicKey(pair.publicKey).v, variant) :
      pair \in KeyPairChoices, variant \in PemVariants }
    \cup { PemVariant(exportPrivateKey(pair.privateKey).v, variant) :
             pair \in KeyPairChoices, variant \in PemVariants }
    \cup CraftedPems

\* Whether atob or, after it, importKey fails.
ImportStepFails(format, bin, usages) ==
  ~bin.ok \/ ~ProviderImportKey(format, bin.v, usages).ok

\* The algorithm identifiers calculateHash recognizes.
RecognizedAlgorithms == { Sha1Name, Sha256Name, Sha384Name, Sha512Name, Md5Name }

\* A call generateKeyPair(keySize), the provider generating a pair or
\* rejecting.
CoreGenerateKeyPair ==
  \E keySize \in KeySizes, rejected \in BOOLEAN :
    /\ CoreIdle
    /\ coreLast' = CoreCall("generateKeyPair", << keySize >>, rejected,
                            generateKeyPairSettled(1, keySize, rejected))
    /\ UNCHANGED << clockVars, otherThanCore >>

\* A call exportPublicKey(key)
CoreExportPublicKey ==
  \E key \in CoreKeys :
    /\ CoreIdle
    /\ coreLast' = CoreCall("exportPublicKey", << key >>,
                            ~ProviderExportKey("spki", key).ok, exportPublicKey(key))
    /\ UNCHANGED << clockVars, otherThanCore >>

\* A call exportPrivateKey(key)
CoreExportPrivateKey ==
  \E key \in CoreKeys :
    /\ CoreIdle
    /\ coreLast' = CoreCall("exportPrivateKey", << key >>,
                            ~ProviderExportKey("pkcs8", key).ok, exportPrivateKey(key))
    /\ UNCHANGED << clockVars, otherThanCore >>

\* A call importPublicKey(pem)
CoreImportPublicKey ==
  \E pem \in CorePems :
    /\ CoreIdle
    /\ coreLast' = CoreCall("importPublicKey", pem,
                            ImportStepFails("spki", Atob(PemContents(pem, PublicKeyLabel)),
                                            {"verify"}),
                            importPublicKey(pem))
    /\ UNCHANGED << clockVars, otherThanCore >>

\* A call importPrivateKey(pem)
CoreImportPrivateKey ==
  \E pem \in CorePems :
    /\ CoreIdle
    /\ coreLast' = CoreCall("importPrivateKey", pem,
                            ImportStepFails("pkcs8", Atob(PemContents(pem, PrivateKeyLabel)),
                                            {"sign"}),
                            importPrivateKey(pem))
    /\ UNCHANGED << clockVars, otherThanCore >>

\* A call signData(data, key)
CoreSignData ==
  \E data \in Messages, key \in CoreKeys, salt \in Salts :
    /\ CoreIdle
    /\ coreLast' = CoreCall("signData", << data, key >>,
                            ~ProviderSign(key, DataBuffer(data), salt).ok,
                            signData(data, key, now, salt))
    /\ UNCHANGED << clockVars, otherThanCore >>

\* A call calculateHash(data, algorithm)
CoreCalculateHash ==
  \E text \in HashTexts, algorithm \in HashAlgorithms :
    /\ CoreIdle
    /\ coreLast' = CoreCall("calculateHash", << text, algorithm >>,
                            /\ algorithm # Md5Name
                            /\ ~ProviderDigest(algorithm, TextEncode(text)).ok,
                            calculateHash(Text(text), algorithm))
    /\ UNCHANGED << clockVars, otherThanCore >>

\* The caller takes the outcome of the call.
CoreReturn ==
  /\ ~CoreIdle
  /\ coreLast' = NoCoreCall
  /\ UNCHANGED << clockVars, otherThanCore >>

CoreNext ==
  \/ CoreGenerateKeyPair
  \/ CoreExportPublicKey
  \/ CoreExportPrivateKey
  \/ CoreImportPublicKey
  \/ CoreImportPrivateKey
  \/ CoreSignData
  \/ CoreCalculateHash
  \/ CoreReturn

(***************************************************************************)
(* HashCalculator: the comparison of two hashes                            *)
(***************************************************************************)

\* The index of the first unit of a text that is not white space, one past
\* its end when there is none.
FirstNonSpace(s) ==
  IF IsBlank(s) THEN Len(s) + 1
  ELSE CHOOSE i \in DOMAIN s : ~IsSpace(s[i]) /\ \A j \in 1..(i - 1) : IsSpace(s[j])

\* The index of the last unit of a text that is not white space, 0 when
\* there is none.
LastNonSpace(s) ==
  IF IsBlank(s) THEN 0
  ELSE CHOOSE i \in DOMAIN s : ~IsSpace(s[i]) /\ \A j \in (i + 1)..Len(s) : IsSpace(s[j])

\* String.prototype.trim
Trim(s) == SubSeq(s, FirstNonSpace(s), LastNonSpace(s))

\* The lower case of one code unit: the ASCII and Latin-1 capitals, the
\* Kelvin sign, whose lower case is k, and the dotted capital I, whose lower
\* case is i and a combining dot.
LowerUnit(c) ==
  IF c >= 65 /\ c <= 90 THEN << c + 32 >>
  ELSE IF c >= 192 /\ c <= 222 /\ c # 215 THEN << c + 32 >>
  ELSE IF c = 8490 THEN << 107 >>
  ELSE IF c = 304 THEN << 105, 775 >>
  ELSE << c >>

\* String.prototype.toLowerCase
ToLowerCase(s) == Concat([i \in DOMAIN s |-> LowerUnit(s[i])])

\* A normalization that trims and keeps the case.
NormalizedHashKeepCase(hash) == Trim(hash)

\* normalizedHash1, normalizedHash2
NormalizedHash(hash) == ToLowerCase(Trim(hash))

\* result of compareHashes for two texts
HashesMatch(hash1, hash2) == NormalizedHash(hash1) = NormalizedHash(hash2)

\* A value of comparisonResult: null or a boolean.
Comparison(isNull, v) == [isNull |-> isNull, v |-> v]

NoCompare == [op |-> "none", hash1 |-> << >>, hash2 |-> << >>, result |-> FALSE]

HcInit ==
  /\ compareHash1 = << >>
  /\ compareHash2 = << >>
  /\ comparisonResult = Comparison(TRUE, FALSE)
  /\ hcToast = "none"
  /\ compareLast = NoCompare

HcIdle == compareLast.op = "none"

\* The texts typed or pasted into the two hash fields.
CompareTexts ==
  { << >>, << 32 >>,
    Str(<< "A", "B", "1", "2" >>), Str(<< "a", "b", "1", "2" >>),
    << 32 >> \o Str(<< "A", "b", "1", "2" >>) \o << 10 >>,
    << 160, 9 >> \o Str(<< "a", "b", "1", "2" >>),
    Str(<< "a", "b", "1", "3" >>), Str(<< "a", " ", "b", "1", "2" >>),
    Str(<< "A", "B", "1" >>), << 8490, 49 >>, Str(<< "k", "1" >>) }

\* onChange of the first hash field
SetCompareHash1 ==
  \E text \in CompareTexts :
    /\ HcIdle
    /\ text # compareHash1
    /\ compareHash1' = text
    /\ UNCHANGED << compareHash2, comparisonResult, hcToast, compareLast, clockVars,
                    otherThanHc >>

\* onChange of the second hash field
SetCompareHash2 ==
  \E text \in CompareTexts :
    /\ HcIdle
    /\ text # compareHash2
    /\ compareHash2' = text
    /\ UNCHANGED << compareHash1, comparisonResult, hcToast, compareLast, clockVars,
                    otherThanHc >>

\* compareHashes: the button is enabled when neither text is blank.
CompareHashes ==
  /\ HcIdle
  /\ ~IsBlank(compareHash1) /\ ~IsBlank(compareHash2)
  /\ comparisonResult' = Comparison(FALSE, HashesMatch(compareHash1, compareHash2))
  /\ hcToast' = IF HashesMatch(compareHash1, compareHash2) THEN "Hashes Match"
                ELSE "Hashes Don't Match"
  /\ compareLast' = [op |-> "compareHashes", hash1 |-> compareHash1,
                     hash2 |-> compareHash2,
                     result |-> HashesMatch(compareHash1, compareHash2)]
  /\ UNCHANGED << compareHash1, compareHash2, clockVars, otherThanHc >>

\* The comparison has been rendered.
CompareDone ==
  /\ ~HcIdle
  /\ compareLast' = NoCompare
  /\ UNCHANGED << compareHash1, compareHash2, comparisonResult, hcToast, clockVars,
                  otherThanHc >>

CompareNext ==
  \/ SetCompareHash1
  \/ SetCompareHash2
  \/ CompareHashes
  \/ CompareDone

(***************************************************************************)
(* KeyManagement                                                           *)
(***************************************************************************)

\* No call of generateKeyPair awaits the provider.
NotGenerating == [stage |-> "none", keySize |-> 0, pair |-> NoKeyPair]

\* No call of importKeys awaits the provider.
NotImporting == [active |-> FALSE, publicKey |-> << >>, privateKey |-> << >>]

KmInit ==
  /\ kmKeyPair = NoKeyPair
  /\ kmKeySize = 2048
  /\ kmIsGenerating = FALSE
  /\ publicKeyPem = << >>
  /\ privateKeyPem = << >>
  /\ importedPublicKey = << >>
  /\ importedPrivateKey = << >>
  /\ kmToast = "none"
  /\ kmGenerating = NotGenerating
  /\ kmImporting = NotImporting
  /\ kmGenerated = 0

\* A key pair generated elsewhere, whose PEM texts the user holds.
ExternalPair == generateKeyPair(9, 3072)

\* The texts typed or pasted into the public key area of the import.
KmPublicTexts ==
  { << >>, exportPublicKey(ExternalPair.publicKey).v, Str(<< "x" >>) }

\* The texts typed or pasted into the private key area of the import.
KmPrivateTexts == { << >>, exportPrivateKey(ExternalPair.privateKey).v }

\* onValueChange of the key size select
SetKeySize ==
  \E value \in KeySizes :
    /\ value # kmKeySize
    /\ kmKeySize' = value
    /\ UNCHANGED << kmKeyPair, kmIsGenerating, publicKeyPem, privateKeyPem,
                    importedPublicKey, importedPrivateKey, kmToast, kmGenerating,
                    kmImporting, kmGenerated, clockVars, otherThanKm >>

\* onChange of the public key area of the import
SetImportedPublicKey ==
  \E text \in KmPublicTexts :
    /\ text # importedPublicKey
    /\ importedPublicKey' = text
    /\ UNCHANGED << kmKeyPair, kmKeySize, kmIsGenerating, publicKeyPem, privateKeyPem,
                    importedPrivateKey, kmToast, kmGenerating, kmImporting,
                    kmGenerated, clockVars, otherThanKm >>

\* onChange of the private key area of the import
SetImportedPrivateKey ==
  \E text \in KmPrivateTexts :
    /\ text # importedPrivateKey
    /\ importedPrivateKey' = text
    /\ UNCHANGED << kmKeyPair, kmKeySize, kmIsGenerating, publicKeyPem, privateKeyPem,
                    importedPublicKey, kmToast, kmGenerating, kmImporting,
                    kmGenerated, clockVars, otherThanKm >>

\* generateKeyPair of the component up to its first await: the button is
\* enabled; the closure keeps the key size of the render it was created in.
KmGenerateKeyPair ==
  /\ ~kmIsGenerating
  /\ kmGenerated < MaxKeyPairs
  /\ kmIsGenerating' = TRUE
  /\ kmGenerating' = [stage |-> "generateKey", keySize |-> kmKeySize, pair |-> NoKeyPair]
  /\ UNCHANGED << kmKeyPair, kmKeySize, publicKeyPem, privateKeyPem, importedPublicKey,
                  importedPrivateKey, kmToast, kmImporting, kmGenerated, clockVars,
                  otherThanKm >>

\* generateKeyPair of the component after its first await: the key pair is
\* put into state and the exports are awaited.
KmGenerateKeyResolved ==
  /\ kmGenerating.stage = "generateKey"
  /\ kmGenerated' = kmGenerated + 1
  /\ kmKeyPair' = generateKeyPair(kmGenerated + 1, kmGenerating.keySize)
  /\ kmGenerating' = [kmGenerating EXCEPT !.stage = "export",
                        !.pair = generateKeyPair(kmGenerated + 1, kmGenerating.keySize)]
  /\ UNCHANGED << kmKeySize, kmIsGenerating, publicKeyPem, privateKeyPem,
                  importedPublicKey, importedPrivateKey, kmToast, kmImporting,
                  clockVars, otherThanKm >>

\* generateKeyPair of the component after its first await, the core having
\* thrown: the catch shows the error and the busy flag is cleared.
KmGenerateKeyRejected ==
  /\ kmGenerating.stage = "generateKey"
  /\ kmToast' = "Error"
  /\ kmIsGenerating' = FALSE
  /\ kmGenerating' = NotGenerating
  /\ UNCHANGED << kmKeyPair, kmKeySize, publicKeyPem, privateKeyPem, importedPublicKey,
                  importedPrivateKey, kmImporting, kmGenerated, clockVars, otherThanKm >>

\* The rest of generateKeyPair of the component once the two exports have
\* returned: the texts are displayed, or the error is shown; the busy flag
\* is cleared.
KmExported(publicPem, privatePem) ==
  /\ kmIsGenerating' = FALSE
  /\ kmGenerating' = NotGenerating
  /\ IF publicPem.ok /\ privatePem.ok
       THEN /\ publicKeyPem' = publicPem.v
            /\ privateKeyPem' = privatePem.v
            /\ kmToast' = "Key Pair Generated"
       ELSE /\ kmToast' = "Error"
            /\ UNCHANGED << publicKeyPem, privateKeyPem >>

\* generateKeyPair of the component after the awaits of its two exports.
KmExportsResolved ==
  /\ kmGenerating.stage = "export"
  /\ KmExported(exportPublicKey(kmGenerating.pair.publicKey),
                exportPrivateKey(kmGenerating.pair.privateKey))
  /\ UNCHANGED << kmKeyPair, kmKeySize, importedPublicKey, importedPrivateKey,
                  kmImporting, kmGenerated, clockVars, otherThanKm >>

\* importKeys up to its first await: the button is enabled, that is, the
\* public key text is not blank; the closure keeps the two texts.
KmImportKeys ==
  /\ ~IsBlank(importedPublicKey)
  /\ ~kmImporting.active
  /\ kmImporting' = [active |-> TRUE, publicKey |-> importedPublicKey,
                     privateKey |-> importedPrivateKey]
  /\ UNCHANGED << kmKeyPair, kmKeySize, kmIsGenerating, publicKeyPem, privateKeyPem,
                  importedPublicKey, importedPrivateKey, kmToast, kmGenerating,
                  kmGenerated, clockVars, otherThanKm >>

\* The rest of importKeys once the imports have returned publicKey and, for
\* a private key text that is not empty, privateKey: the pair is put into
\* state when there is a private key, the texts are displayed, or the error
\* is shown.
KmImported(publicKey, privateKey) ==
  /\ kmImporting' = NotImporting
  /\ IF publicKey.ok /\ (kmImporting.privateKey # << >> => privateKey.ok)
       THEN /\ kmKeyPair' = IF kmImporting.privateKey # << >>
                              THEN [publicKey |-> publicKey.v, privateKey |-> privateKey.v]
                              ELSE kmKeyPair
            /\ publicKeyPem' = kmImporting.publicKey
            /\ privateKeyPem' = IF kmImporting.privateKey # << >>
                                  THEN kmImporting.privateKey ELSE privateKeyPem
            /\ kmToast' = "Keys Imported"
       ELSE /\ kmToast' = "Error"
            /\ UNCHANGED << kmKeyPair, publicKeyPem, privateKeyPem >>

\* importKeys after its awaits.
KmImportSettled ==
  /\ kmImporting.active
  /\ KmImported(importPublicKey(kmImporting.publicKey),
                importPrivateKey(kmImporting.privateKey))
  /\ UNCHANGED << kmKeySize, kmIsGenerating, importedPublicKey, importedPrivateKey,
                  kmGenerating, kmGenerated, clockVars, otherThanKm >>

KmNext ==
  \/ SetKeySize
  \/ SetImportedPublicKey
  \/ SetImportedPrivateKey
  \/ KmGenerateKeyPair
  \/ KmGenerateKeyResolved
  \/ KmGenerateKeyRejected
  \/ KmExportsResolved
  \/ KmImportKeys
  \/ KmImportSettled

(***************************************************************************)
(* SignatureOperations: the signing form and the verification form         *)
(***************************************************************************)

\* useState(null) of signatureResult and of verificationResult.
NoSignatureResult == [isNull |-> TRUE, v |-> SignatureResult(<< >>, SessionStart)]
NoVerification == [isNull |-> TRUE, v |-> FALSE]

\* No call of the component awaits the core.
NotProcessing ==
  [op |-> "none", stage |-> "none", document |-> << >>, signature |-> << >>,
   pem |-> << >>, key |-> NoKey]

SoInit ==
  /\ documentText = << >>
  /\ soPrivateKeyPem = << >>
  /\ soPublicKeyPem = << >>
  /\ signatureResult = NoSignatureResult
  /\ verificationSignature = << >>
  /\ verificationDocument = << >>
  /\ verificationResult = NoVerification
  /\ soIsProcessing = FALSE
  /\ soToast = "none"
  /\ soPending = NotProcessing

\* The key pair whose PEM texts the user pastes into the forms.
SoPair == generateKeyPair(8, 2048)

\* The texts typed or pasted into the text areas.
SoDocuments == {<< >>, Invoice42}
SoVerificationDocuments == {<< >>, Invoice42, Invoice43}
SoPrivateTexts == {<< >>, exportPrivateKey(SoPair.privateKey).v, Str(<< "x" >>)}
SoPublicTexts == {<< >>, exportPublicKey(SoPair.publicKey).v, Str(<< "x" >>)}
SoSignatureTexts == {<< >>, Str(<< "!", "!", "!" >>)}

\* The salt the provider draws for the signatures of the component.
SoSalts == {7}

\* onChange of the text area "document"
SetDocumentText ==
  \E text \in SoDocuments :
    /\ documentText' = text
    /\ UNCHANGED << soPrivateKeyPem, soPublicKeyPem, signatureResult,
                    verificationSignature, verificationDocument, verificationResult,
                    soIsProcessing, soToast, soPending, clockVars, otherThanSo >>

\* onChange of the text area "privateKey"
SetPrivateKeyPem ==
  \E text \in SoPrivateTexts :
    /\ soPrivateKeyPem' = text
    /\ UNCHANGED << documentText, soPublicKeyPem, signatureResult,
                    verificationSignature, verificationDocument, verificationResult,
                    soIsProcessing, soToast, soPending, clockVars, otherThanSo >>

\* onChange of the text area "verifyDocument"
SetVerificationDocument ==
  \E text \in SoVerificationDocuments :
    /\ verificationDocument' = text
    /\ UNCHANGED << documentText, soPrivateKeyPem, soPublicKeyPem, signatureResult,
                    verificationSignature, verificationResult, soIsProcessing, soToast,
                    soPending, clockVars, otherThanSo >>

\* onChange of the text area "signature"
SetVerificationSignature ==
  \E text \in SoSignatureTexts :
    /\ verificationSignature' = text
    /\ UNCHANGED << documentText, soPrivateKeyPem, soPublicKeyPem, signatureResult,
                    verificationDocument, verificationResult, soIsProcessing, soToast,
                    soPending, clockVars, otherThanSo >>

\* onChange of the text area "publicKeyVerify"
SetPublicKeyPem ==
  \E text \in SoPublicTexts :
    /\ soPublicKeyPem' = text
    /\ UNCHANGED << documentText, soPrivateKeyPem, signatureResult,
                    verificationSignature, verificationDocument, verificationResult,
                    soIsProcessing, soToast, soPending, clockVars, otherThanSo >>

\* signDocument up to its first await: the button is enabled, that is, no
\* call is in progress and neither text is blank; the closure keeps the two
\* texts.
SignDocument ==
  /\ ~soIsProcessing
  /\ ~IsBlank(documentText)
  /\ ~IsBlank(soPrivateKeyPem)
  /\ soIsProcessing' = TRUE
  /\ soPending' = [NotProcessing EXCEPT !.op = "sign", !.stage = "import",
                                        !.document = documentText,
                                        !.pem = soPrivateKeyPem]
  /\ UNCHANGED << documentText, soPrivateKeyPem, soPublicKeyPem, signatureResult,
                  verificationSignature, verificationDocument, verificationResult,
                  soToast, clockVars, otherThanSo >>

\* SignImported with the busy flag cleared only when the signing goes on.
SignImportedStaysBusy(imported) ==
  IF imported.ok
    THEN /\ soPending' = [soPending EXCEPT !.stage = "core", !.key = imported.v]
         /\ UNCHANGED << soIsProcessing, soToast >>
    ELSE /\ soPending' = NotProcessing
         /\ soToast' = "Signature Failed"
         /\ UNCHANGED soIsProcessing

\* signDocument once importPrivateKey has settled with imported: signData is
\* awaited, or the catch shows the error and the busy flag is cleared.
SignImported(imported) ==
  IF imported.ok
    THEN /\ soPending' = [soPending EXCEPT !.stage = "core", !.key = imported.v]
         /\ UNCHANGED << soIsProcessing, soToast >>
    ELSE /\ soPending' = NotProcessing
         /\ soIsProcessing' = FALSE
         /\ soToast' = "Signature Failed"

\* signDocument after the await of importPrivateKey.
SignKeyImported ==
  /\ soPending.op = "sign"
  /\ soPending.stage = "import"
  /\ SignImported(importPrivateKey(soPending.pem))
  /\ UNCHANGED << documentText, soPrivateKeyPem, soPublicKeyPem, signatureResult,
                  verificationSignature, verificationDocument, verificationResult,
                  clockVars, otherThanSo >>

\* signDocument once signData has settled with signed: the result is
\* displayed, or the catch shows the error; the busy flag is cleared.
SignSettled(signed) ==
  /\ soPending' = NotProcessing
  /\ soIsProcessing' = FALSE
  /\ IF signed.ok
       THEN /\ signatureResult' = [isNull |-> FALSE, v |-> signed.v]
            /\ soToast' = "Document Signed"
       ELSE /\ soToast' = "Signature Failed"
            /\ UNCHANGED signatureResult

\* signDocument after the await of signData.
SignDataSettled ==
  \E salt \in SoSalts :
    /\ soPending.op = "sign"
    /\ soPending.stage = "core"
    /\ SignSettled(signData(Text(soPending.document), soPending.key, now, salt))
    /\ UNCHANGED << documentText, soPrivateKeyPem, soPublicKeyPem,
                    verificationSignature, verificationDocument, verificationResult,
                    clockVars, otherThanSo >>

\* verifySignature of the component up to its first await: the button is
\* enabled, that is, no call is in progress and none of the three texts is
\* blank; the closure keeps the three texts.
VerifySignature ==
  /\ ~soIsProcessing
  /\ ~IsBlank(verificationDocument)
  /\ ~IsBlank(verificationSignature)
  /\ ~IsBlank(soPublicKeyPem)
  /\ soIsProcessing' = TRUE
  /\ soPending' = [NotProcessing EXCEPT !.op = "verify", !.stage = "import",
                                        !.document = verificationDocument,
                                        !.signature = verificationSignature,
                                        !.pem = soPublicKeyPem]
  /\ UNCHANGED << documentText, soPrivateKeyPem, soPublicKeyPem, signatureResult,
                  verificationSignature, verificationDocument, verificationResult,
                  soToast, clockVars, otherThanSo >>

\* The verification result left as it was when the core throws.
VerificationKeptOnError(outcome, shown) ==
  IF outcome.ok THEN [isNull |-> FALSE, v |-> outcome.v] ELSE shown

\* The verification result displayed once the core has settled with outcome:
\* isValid, or false from the catch.
VerificationShown(outcome, shown) ==
  IF outcome.ok THEN [isNull |-> FALSE, v |-> outcome.v]
  ELSE [isNull |-> FALSE, v |-> FALSE]

\* The toast shown with the verification result.
VerificationToast(outcome) ==
  IF ~outcome.ok THEN "Verification Failed"
  ELSE IF outcome.v THEN "Signature Valid" ELSE "Signature Invalid"

\* verifySignature of the component once importPublicKey has settled with
\* imported: the core's verifySignature is awaited, or the catch shows the
\* error, displays false and the busy flag is cleared.
VerifyImported(imported) ==
  IF imported.ok
    THEN /\ soPending' = [soPending EXCEPT !.stage = "core", !.key = imported.v]
         /\ UNCHANGED << soIsProcessing, soToast, verificationResult >>
    ELSE /\ soPending' = NotProcessing
         /\ soIsProcessing' = FALSE
         /\ soToast' = VerificationToast(imported)
         /\ verificationResult' = VerificationShown(imported, verificationResult)

\* verifySignature of the component after the await of importPublicKey.
VerifyKeyImported ==
  /\ soPending.op = "verify"
  /\ soPending.stage = "import"
  /\ VerifyImported(importPublicKey(soPending.pem))
  /\ UNCHANGED << documentText, soPrivateKeyPem, soPublicKeyPem, signatureResult,
                  verificationSignature, verificationDocument, clockVars, otherThanSo >>

\* verifySignature of the component after the await of the core's
\* verifySignature: the result is displayed and the busy flag is cleared.
VerifySettled ==
  /\ soPending.op = "verify"
  /\ soPending.stage = "core"
  /\ soPending' = NotProcessing
  /\ soIsProcessing' = FALSE
  /\ verificationResult'
       = VerificationShown(verifySignature(Text(soPending.document),
                                           soPending.signature, soPending.key),
                           verificationResult)
  /\ soToast' = VerificationToast(verifySignature(Text(soPending.document),
                                                  soPending.signature, soPending.key))
  /\ UNCHANGED << documentText, soPrivateKeyPem, soPublicKeyPem, signatureResult,
                  verificationSignature, verificationDocument, clockVars, otherThanSo >>

\* clearSignature
ClearSignature ==
  /\ signatureResult' = NoSignatureResult
  /\ verificationResult' = NoVerification
  /\ UNCHANGED << documentText, soPrivateKeyPem, soPublicKeyPem, verificationSignature,
                  verificationDocument, soIsProcessing, soToast, soPending, clockVars,
                  otherThanSo >>

\* onClick of "Test This Signature", rendered while a signature is displayed.
TestThisSignature ==
  /\ ~signatureResult.isNull
  /\ verificationDocument' = documentText
  /\ verificationSignature' = signatureResult.v.signature
  /\ UNCHANGED << documentText, soPrivateKeyPem, soPublicKeyPem, signatureResult,
                  verificationResult, soIsProcessing, soToast, soPending, clockVars,
                  otherThanSo >>

SoNext ==
  \/ SetDocumentText
  \/ SetPrivateKeyPem
  \/ SetVerificationDocument
  \/ SetVerificationSignature
  \/ SetPublicKeyPem
  \/ SignDocument
  \/ SignKeyImported
  \/ SignDataSettled
  \/ VerifySignature
  \/ VerifyKeyImported
  \/ VerifySettled
  \/ ClearSignature
  \/ TestThisSignature

(***************************************************************************)
(* HashCalculator: the result list                                         *)
(***************************************************************************)

\* No call of the component awaits the core.
NotHashing ==
  [op |-> "none", text |-> << >>, algorithm |-> << >>, index |-> 0, results |-> << >>]

HrInit ==
  /\ inputText = << >>
  /\ selectedAlgorithm = Sha256Name
  /\ hashResults = << >>
  /\ hcIsProcessing = FALSE
  /\ hcPending = NotHashing

\* The texts typed into the input area and the algorithms selected.
HcInputs == {<< >>, Str(<< "a" >>), Str(<< "b" >>)}
HcSelected == {Sha256Name, Md5Name}

\* const algorithms of calculateAllHashes
AllAlgorithms == << Sha1Name, Sha256Name, Sha384Name, Sha512Name, Md5Name >>

\* The HashResult built for a hash of text computed at clock reading t.
HashResultOf(algorithm, text, hash, t) ==
  [algorithm |-> algorithm, hash |-> hash, inputSize |-> Len(TextEncode(text)),
   timestamp |-> ToISOString(t).v]

\* The list with the result put first and the older results kept.
WithResultPrepended(results, result) == << result >> \o results

\* [result, ...prev.filter(r => r.algorithm !== alg)]
WithResultFirst(results, result) ==
  << result >> \o SelectSeq(results, LAMBDA r : r.algorithm # result.algorithm)

\* onChange of the input area
SetInputText ==
  \E text \in HcInputs :
    /\ inputText' = text
    /\ UNCHANGED << selectedAlgorithm, hashResults, hcIsProcessing, hcPending,
                    clockVars, otherThanHr >>

\* onValueChange of the algorithm select
SetSelectedAlgorithm ==
  \E algorithm \in HcSelected :
    /\ selectedAlgorithm' = algorithm
    /\ UNCHANGED << inputText, hashResults, hcIsProcessing, hcPending, clockVars,
                    otherThanHr >>

\* calculateHash() of the component up to its await: the button is enabled,
\* that is, no call is in progress and the text is not blank; the closure
\* keeps the text and the algorithm.
HcCalculateHash ==
  /\ ~hcIsProcessing
  /\ ~IsBlank(inputText)
  /\ hcIsProcessing' = TRUE
  /\ hcPending' = [NotHashing EXCEPT !.op = "one", !.text = inputText,
                                     !.algorithm = selectedAlgorithm]
  /\ UNCHANGED << inputText, selectedAlgorithm, hashResults, clockVars, otherThanHr >>

\* calculateHash() of the component once the core has settled with hash: the
\* result is put first in place of the older result of its algorithm, or the
\* catch shows the error; the busy flag is cleared.
HcHashSettled(hash) ==
  /\ hcIsProcessing' = FALSE
  /\ hcPending' = NotHashing
  /\ IF hash.ok
       THEN /\ hashResults'
                 = WithResultFirst(hashResults,
                     HashResultOf(hcPending.algorithm, hcPending.text, hash.v, now))
            /\ hcToast' = "Hash Calculated"
       ELSE /\ hcToast' = "Calculation Failed"
            /\ UNCHANGED hashResults
  /\ UNCHANGED << inputText, selectedAlgorithm, compareHash1, compareHash2,
                  comparisonResult, compareLast, clockVars, otherThanHashCalculator >>

\* calculateHash() of the component after its await, the core having
\* returned.
HcCalculateHashResolved ==
  /\ hcPending.op = "one"
  /\ HcHashSettled(calculateHash(Text(hcPending.text), hcPending.algorithm))

\* calculateHash() of the component after its await, the provider having
\* rejected the digest.
HcCalculateHashRejected ==
  /\ hcPending.op = "one"
  /\ hcPending.algorithm # Md5Name
  /\ HcHashSettled(HashOfDigest([ok |-> FALSE, v |-> << >>]))

\* calculateAllHashes up to its first await.
HcCalculateAllHashes ==
  /\ ~hcIsProcessing
  /\ ~IsBlank(inputText)
  /\ hcIsProcessing' = TRUE
  /\ hcPending' = [NotHashing EXCEPT !.op = "all", !.text = inputText, !.index = 1]
  /\ UNCHANGED << inputText, selectedAlgorithm, hashResults, clockVars, otherThanHr >>

\* One turn of the loop of calculateAllHashes once the core has settled with
\* hash: the result is pushed and the next hash is awaited; after the last
\* one the results replace the list; an error ends the loop in the catch.
\* The busy flag is cleared when the call ends.
HcAllSettled(hash) ==
  /\ IF hash.ok /\ hcPending.index < Len(AllAlgorithms)
       THEN /\ hcPending'
                 = [hcPending EXCEPT
                      !.index = @ + 1,
                      !.results = Append(@, HashResultOf(AllAlgorithms[hcPending.index],
                                                         hcPending.text, hash.v, now))]
            /\ UNCHANGED << hcIsProcessing, hashResults, hcToast >>
       ELSE /\ hcPending' = NotHashing
            /\ hcIsProcessing' = FALSE
            /\ IF hash.ok
                 THEN /\ hashResults'
                           = Append(hcPending.results,
                               HashResultOf(AllAlgorithms[hcPending.index],
                                            hcPending.text, hash.v, now))
                      /\ hcToast' = "All Hashes Calculated"
                 ELSE /\ hcToast' = "Calculation Failed"
                      /\ UNCHANGED hashResults
  /\ UNCHANGED << inputText, selectedAlgorithm, compareHash1, compareHash2,
                  comparisonResult, compareLast, clockVars, otherThanHashCalculator >>

\* calculateAllHashes after an await, the core having returned.
HcAllHashResolved ==
  /\ hcPending.op = "all"
  /\ HcAllSettled(calculateHash(Text(hcPending.text), AllAlgorithms[hcPending.index]))

\* calculateAllHashes after an await, the provider having rejected the
\* digest.
HcAllHashRejected ==
  /\ hcPending.op = "all"
  /\ AllAlgorithms[hcPending.index] # Md5Name
  /\ HcAllSettled(HashOfDigest([ok |-> FALSE, v |-> << >>]))

\* clearResults, whose button is rendered while the list is not empty.
ClearResults ==
  /\ hashResults # << >>
  /\ hashResults' = << >>
  /\ inputText' = << >>
  /\ comparisonResult' = Comparison(TRUE, FALSE)
  /\ compareHash1' = << >>
  /\ compareHash2' = << >>
  /\ UNCHANGED << selectedAlgorithm, hcIsProcessing, hcPending, hcToast, compareLast,
                  clockVars, otherThanHashCalculator >>

HrNext ==
  \/ SetInputText
  \/ SetSelectedAlgorithm
  \/ HcCalculateHash
  \/ HcCalculateHashResolved
  \/ HcCalculateHashRejected
  \/ HcCalculateAllHashes
  \/ HcAllHashResolved
  \/ HcAllHashRejected
  \/ ClearResults

(***************************************************************************)
(* TimestampService: the creation form, the verification form, the history *)
(***************************************************************************)

\* The history holds at most this many records.
MaxTimestamps == 2

\* useState(null) of verificationResult.
NoTimestampVerification == [isNull |-> TRUE, verdict |-> InvalidVerdict]

TcInit ==
  /\ tcDocumentText = << >>
  /\ timestampToken = << >>
  /\ verifyToken = << >>
  /\ timestamps = << >>
  /\ tcVerificationResult = NoTimestampVerification
  /\ tcIsProcessing = FALSE
  /\ tcToast = "none"

\* The texts typed into the document area: a text of Latin-1 characters and
\* one with a character above U+00FF.
TcDocuments == {<< >>, Invoice42, << 8364 >>}

\* The texts typed into the token area.
TcTokens == {<< >>, Str(<< "!", "!", "!" >>)}

\* documentText.substring(0, 100) + (documentText.length > 100 ? '...' : '')
RecordData(text) ==
  Substring(text, 0, 100) \o (IF Len(text) > 100 THEN Str(<< ".", ".", "." >>) ELSE << >>)

\* The TimestampRecord of a token, its timestamp read from the clock at t.
TimestampRecord(idRnd, text, token, t) ==
  [id |-> Substring(RandomToString(idRnd), 2, 9), data |-> RecordData(text),
   token |-> token, timestamp |-> ToISOString(t).v, authority |-> AuthorityName,
   isValid |-> TRUE]

\* onChange of the document area
SetTimestampDocument ==
  \E text \in TcDocuments :
    /\ tcDocumentText' = text
    /\ UNCHANGED << timestampToken, verifyToken, timestamps, tcVerificationResult,
                    tcIsProcessing, tcToast, clockVars, otherThanTc >>

\* onChange of the token area
SetVerifyToken ==
  \E text \in TcTokens :
    /\ verifyToken' = text
    /\ UNCHANGED << tcDocumentText, timestampToken, timestamps, tcVerificationResult,
                    tcIsProcessing, tcToast, clockVars, otherThanTc >>

\* createTimestamp of the component once the core has returned token, or
\* thrown: the token is displayed and its record is put first in the
\* history, or the catch shows the error. Nothing is awaited, and the busy
\* flag is false again when the handler returns.
TimestampCreated(token, idRnd, t) ==
  /\ tcIsProcessing' = FALSE
  /\ IF token.ok
       THEN /\ timestampToken' = token.v
            /\ timestamps'
                 = << TimestampRecord(idRnd, tcDocumentText, token.v, t) >> \o timestamps
            /\ tcToast' = "Timestamp Created"
       ELSE /\ tcToast' = "Error"
            /\ UNCHANGED << timestampToken, timestamps >>

\* createTimestamp of the component: the button is enabled, that is, no call
\* is in progress and the text is not blank. The core reads the clock, and
\* the record reads it again, passed milliseconds later.
TcCreateTimestamp ==
  \E rnd \in RandomBase36, idRnd \in RandomBase36, passed \in 0..1 :
    /\ ~tcIsProcessing
    /\ ~IsBlank(tcDocumentText)
    /\ Len(timestamps) < MaxTimestamps
    /\ ticks + passed <= MaxTicks
    /\ now' = AddMs(now, passed)
    /\ ticks' = ticks + passed
    /\ TimestampCreated(createTimestamp(tcDocumentText, now, rnd), idRnd,
                        AddMs(now, passed))
    /\ UNCHANGED << tcDocumentText, verifyToken, tcVerificationResult, otherThanTc >>

\* verifyTimestamp of the component: the button is enabled, that is, no call
\* is in progress and the token text is not blank.
TcVerifyTimestamp ==
  /\ ~tcIsProcessing
  /\ ~IsBlank(verifyToken)
  /\ tcVerificationResult' = [isNull |-> FALSE, verdict |-> verifyTimestamp(verifyToken)]
  /\ tcToast' = IF tcVerificationResult'.verdict.valid THEN "Valid Timestamp"
                ELSE "Invalid Timestamp"
  /\ tcIsProcessing' = FALSE
  /\ UNCHANGED << tcDocumentText, timestampToken, verifyToken, timestamps, clockVars,
                  otherThanTc >>

\* deleteTimestamp(id) with the id of a record of the history.
DeleteTimestamp ==
  \E i \in DOMAIN timestamps :
    /\ timestamps' = SelectSeq(timestamps, LAMBDA r : r.id # timestamps[i].id)
    /\ tcToast' = "Timestamp Deleted"
    /\ UNCHANGED << tcDocumentText, timestampToken, verifyToken, tcVerificationResult,
                    tcIsProcessing, clockVars, otherThanTc >>

\* onClick of the Verify button of a record
UseRecordToken ==
  \E i \in DOMAIN timestamps :
    /\ verifyToken' = timestamps[i].token
    /\ UNCHANGED << tcDocumentText, timestampToken, timestamps, tcVerificationResult,
                    tcIsProcessing, tcToast, clockVars, otherThanTc >>

\* clearVerification
ClearVerification ==
  /\ tcVerificationResult' = NoTimestampVerification
  /\ verifyToken' = << >>
  /\ UNCHANGED << tcDocumentText, timestampToken, timestamps, tcIsProcessing, tcToast,
                  clockVars, otherThanTc >>

\* A millisecond passes between two handlers.
TcTick == TickMs /\ UNCHANGED << tcVars, otherThanTc >>

TcNext ==
  \/ SetTimestampDocument
  \/ SetVerifyToken
  \/ TcCreateTimestamp
  \/ TcVerifyTimestamp
  \/ DeleteTimestamp
  \/ UseRecordToken
  \/ ClearVerification
  \/ TcTick

(***************************************************************************)
(* Specifications                                                          *)
(***************************************************************************)

Init == ClockInit /\ TsInit /\ SigInit /\ HashInit /\ CertInit /\ CmInit /\ KeyInit
          /\ StatusInit /\ CoreInit /\ HcInit /\ KmInit /\ SoInit /\ HrInit
          /\ TcInit

\* Calls of createTimestamp and verifyTimestamp.
SpecTimestamp == Init /\ [][TsNext]_vars

\* Calls of generateKeyPair, signData and verifySignature.
SpecSignature == Init /\ [][SigNext]_vars

\* Calls of calculateHash.
SpecHash == Init /\ [][HashNext]_vars

\* Calls of generateSelfSignedCert.
SpecCertificate == Init /\ [][CertNext]_vars

\* The CertificateManager component in use.
SpecCertificateManager == Init /\ [][CmNext]_vars

\* Calls of the export and import operations on keys.
SpecKeys == Init /\ [][KeyNext]_vars

\* The operations on the certificate store of CertificateManager.
SpecCertificateStore == Init /\ [][StoreNext]_vars

\* Calls of the core operations whose steps may fail.
SpecCore == Init /\ [][CoreNext]_vars

\* Comparisons of hashes in HashCalculator.
SpecCompareHashes == Init /\ [][CompareNext]_vars

\* The operations of KeyManagement.
SpecKeyManagement == Init /\ [][KmNext]_vars

\* The operations of SignatureOperations.
SpecSignatureOperations == Init /\ [][SoNext]_vars

\* The result list of HashCalculator.
SpecHashResults == Init /\ [][HrNext]_vars

\* The operations of TimestampService.
SpecTimestampService == Init /\ [][TcNext]_vars

\* A session in one component: the other components are as constructed.
\* The components share no state, so what one does is what it does in any
\* session.
OnlyKeyManagement == CmInit /\ SoInit /\ HcInit /\ HrInit /\ TcInit
OnlyCertificateManager == KmInit /\ SoInit /\ HcInit /\ HrInit /\ TcInit
OnlySignatureOperations == KmInit /\ CmInit /\ HcInit /\ HrInit /\ TcInit
OnlyHashCalculator == KmInit /\ CmInit /\ SoInit /\ TcInit
OnlyTimestampService == KmInit /\ CmInit /\ SoInit /\ HcInit /\ HrInit

\* The steps in which a call of a component's handler that awaits the core
\* goes on after the await, the promise resolved or rejected.
KmSettles ==
  OnlyKeyManagement
    /\ (KmGenerateKeyResolved \/ KmGenerateKeyRejected \/ KmExportsResolved)
CmSettles ==
  OnlyCertificateManager /\ (GenerateCertificateResolved \/ GenerateCertificateRejected)
SoSettles ==
  OnlySignatureOperations
    /\ (SignKeyImported \/ SignDataSettled \/ VerifyKeyImported \/ VerifySettled)
HcSettles ==
  OnlyHashCalculator
    /\ (\/ HcCalculateHashResolved \/ HcCalculateHashRejected
        \/ HcAllHashResolved \/ HcAllHashRejected)

\* The handlers that start the operations which set a busy flag, the typing
\* that enables them, and the steps after their awaits. TimestampService
\* creates one timestamp.
BusyNext ==
  \/ OnlyKeyManagement /\ KmGenerateKeyPair
  \/ OnlyCertificateManager /\ SetNewCertSubject
  \/ OnlyCertificateManager /\ GenerateCertificate
  \/ OnlySignatureOperations /\ SetDocumentText
  \/ OnlySignatureOperations /\ SetPrivateKeyPem
  \/ OnlySignatureOperations /\ SetVerificationDocument
  \/ OnlySignatureOperations /\ SetPublicKeyPem
  \/ OnlySignatureOperations /\ TestThisSignature
  \/ OnlySignatureOperations /\ SignDocument
  \/ OnlySignatureOperations /\ VerifySignature
  \/ OnlyHashCalculator /\ SetInputText
  \/ OnlyHashCalculator /\ HcCalculateHash
  \/ OnlyHashCalculator /\ HcCalculateAllHashes
  \/ OnlyTimestampService /\ SetTimestampDocument
  \/ OnlyTimestampService /\ UseRecordToken
  \/ OnlyTimestampService /\ timestamps = << >> /\ TcCreateTimestamp
  \/ OnlyTimestampService /\ TcVerifyTimestamp
  \/ OnlyKeyManagement /\ KmGenerateKeyResolved
  \/ OnlyKeyManagement /\ KmGenerateKeyRejected
  \/ OnlyKeyManagement /\ KmExportsResolved
  \/ OnlyCertificateManager /\ GenerateCertificateResolved
  \/ OnlyCertificateManager /\ GenerateCertificateRejected
  \/ OnlySignatureOperations /\ SignKeyImported
  \/ OnlySignatureOperations /\ SignDataSettled
  \/ OnlySignatureOperations /\ VerifyKeyImported
  \/ OnlySignatureOperations /\ VerifySettled
  \/ OnlyHashCalculator /\ HcCalculateHashResolved
  \/ OnlyHashCalculator /\ HcCalculateHashRejected
  \/ OnlyHashCalculator /\ HcAllHashResolved
  \/ OnlyHashCalculator /\ HcAllHashRejected

\* A call of a handler of the component awaits a promise of the core.
KmAwaits == kmGenerating.stage # "none"
CmAwaits == cmPending.active
SoAwaits == soPending.op # "none"
HcAwaits == hcPending.op # "none"

\* Weak fairness of the steps after the awaits: a promise of the core
\* settles, and the event loop then runs the continuation of the handler
\* that awaits it. A step after an await is enabled exactly while a call
\* awaits, which is what ENABLED stands for in WF_vars(KmSettles),
\* WF_vars(CmSettles), WF_vars(SoSettles) and WF_vars(HcSettles).
BusyFairness ==
  /\ ([]<>~KmAwaits \/ []<><<KmSettles>>_vars)
  /\ ([]<>~CmAwaits \/ []<><<CmSettles>>_vars)
  /\ ([]<>~SoAwaits \/ []<><<SoSettles>>_vars)
  /\ ([]<>~HcAwaits \/ []<><<HcSettles>>_vars)

\* The operations of the five components that set a busy flag.
SpecBusyFlags == Init /\ [][BusyNext]_vars /\ BusyFairness

\* Renderings of the status badges of certificates.
SpecCertificateStatus == Init /\ [][StatusNext]_vars

(***************************************************************************)
(* Properties of verifySignature and signData                              *)
(***************************************************************************)

\* The latest call is verifySignature on the signature text that signData
\* returned, with the public key of the pair whose private key signed.
VerifiedWithSigningPair ==
  /\ sigLast.op = "verifySignature"
  /\ sigLast.origin = "issued"
  /\ sigIssued.key.type = "private"
  /\ sigLast.key = keyPairs[sigIssued.key.kid].publicKey

\* C1: verifySignature is a total predicate that fails closed: whatever the
\* message, the signature text and the key, it returns (false when the
\* signature cannot be decoded or the provider rejects the call) and never
\* raises an error.
C1_VerifyFailsClosed ==
  sigLast.op = "verifySignature" => ~sigLast.raised

\* C3: the keySize recorded in the SignatureResult that signData returns is
\* the modulus size of the private key that signed.
C3_KeySizeRecorded ==
  (sigLast.op = "signData" /\ ~sigLast.raised)
    => sigLast.result.keySize = sigLast.key.modulusLength

\* C9: a signature verifies for the message it was made for: verifySignature
\* on m, the signature signData returned for m under a private key, and the
\* public key of the same pair returns true.
C9_SignatureCorrectness ==
  (VerifiedWithSigningPair /\ sigLast.data = sigIssued.data)
    => (~sigLast.raised /\ sigLast.value = TRUE)

C9_Witness ==
  /\ VerifiedWithSigningPair
  /\ sigLast.data = sigIssued.data
  /\ sigLast.value = TRUE
  /\ sigLast.key.modulusLength = 4096

\* C10 as stated: a signature over m does not verify for any other message
\* m': verifySignature on m', the signature for m and the public key of the
\* signing pair returns false.
C10_IntegrityForDifferentMessages ==
  (VerifiedWithSigningPair /\ sigLast.data # sigIssued.data)
    => (~sigLast.raised /\ sigLast.value = FALSE)

\* C10 amended: a signature over m does not verify for a message m' whose
\* bytes (the UTF-8 encoding of a text, the content of a buffer) differ
\* from those of m.
C10_IntegrityForDifferentBytes ==
  (VerifiedWithSigningPair /\ DataBuffer(sigLast.data) # DataBuffer(sigIssued.data))
    => (~sigLast.raised /\ sigLast.value = FALSE)

C10_Witness ==
  /\ VerifiedWithSigningPair
  /\ sigIssued.data = Text(Invoice42)
  /\ sigLast.data = Text(Invoice43)
  /\ ~sigLast.raised
  /\ sigLast.value = FALSE

(***************************************************************************)
(* Properties of createTimestamp and verifyTimestamp                       *)
(***************************************************************************)

\* Decoding the token fails: atob throws, or JSON.parse throws on what atob
\* returned.
DecodeFails(token) == ~Atob(token).ok \/ ~JsonParse(Atob(token).v).ok

\* C2: verifyTimestamp never raises, and when base64 decoding or parsing of
\* the token fails it returns valid = false with neither a timestamp nor an
\* authority.
C2_VerifyTimestampFailsClosed ==
  tsLast.op = "verifyTimestamp"
    => /\ ~tsLast.raised
       /\ DecodeFails(tsLast.token)
            => (tsLast.verdict.valid = FALSE /\ tsLast.verdict.keys = {})

C2_Witness ==
  /\ tsLast.op = "verifyTimestamp"
  /\ ~Atob(tsLast.token).ok
  /\ tsLast.verdict.valid = FALSE
  /\ tsLast.verdict.keys = {}

\* C7: timestamp round trip: createTimestamp returns a token for every
\* document without raising, and verifyTimestamp on that token returns
\* valid = true with the timestamp and the authority that were embedded.
C7_TimestampRoundTrip ==
  /\ tsLast.op = "createTimestamp" => ~tsLast.raised
  /\ (tsLast.op = "verifyTimestamp" /\ tsLast.origin = "issued")
       => /\ ~tsLast.raised
          /\ tsLast.verdict.valid
          /\ tsLast.verdict.timestamp = JsString(tsIssued.timestamp)
          /\ tsLast.verdict.authority = JsString(tsIssued.authority)

\* C8: timestamp tamper rejection: verifyTimestamp on a truncated or
\* corrupted copy of a token that createTimestamp produced returns
\* valid = false and does not raise.
C8_TamperRejected ==
  (tsLast.op = "verifyTimestamp" /\ tsLast.origin \in {"truncated", "corrupted"})
    => (~tsLast.raised /\ tsLast.verdict.valid = FALSE)

\* C14 as stated: verifyTimestamp returns valid = true for exactly the
\* tokens that base64-decode to parseable JSON text.
C14_ValidIffDecodes ==
  tsLast.op = "verifyTimestamp"
    => (tsLast.verdict.valid <=> ~DecodeFails(tsLast.token))

\* JSON.parse on what atob returned, failing when atob threw.
ParsedBinary(bin) == IF bin.ok THEN JsonParse(bin.v) ELSE [ok |-> FALSE, v |-> JsUndefined]

\* The verdict is valid = true exactly when the token decoded to a value
\* other than null, and then carries the timestamp and the authority of that
\* value.
VerdictReportsDecoded(verdict, parsed) ==
  IF parsed.ok /\ parsed.v.t # "null"
    THEN /\ verdict.valid
         /\ verdict.timestamp = GetProperty(parsed.v, TimestampKey).v
         /\ verdict.authority = GetProperty(parsed.v, AuthorityKey).v
    ELSE ~verdict.valid

\* C14 amended: verifyTimestamp returns valid = true for exactly the tokens
\* that base64-decode to parseable JSON text other than null, whether or not
\* createTimestamp made them, and then reports the timestamp and the
\* authority that the decoded value carries (undefined when it has none).
C14_ValidIffDecodesToNonNull ==
  tsLast.op = "verifyTimestamp"
    => VerdictReportsDecoded(tsLast.verdict, ParsedBinary(Atob(tsLast.token)))

\* A token that createTimestamp did not make is accepted with its
\* fabricated timestamp.
C14_Witness ==
  /\ tsLast.op = "verifyTimestamp"
  /\ tsLast.origin = "crafted"
  /\ tsLast.verdict.valid
  /\ tsLast.verdict.timestamp = JsString(Str(<< "1", "9", "9", "9" >>))
  /\ tsLast.verdict.authority = JsString(Str(<< "m", "e" >>))

\* The first n units of a text, the whole text when it is shorter.
FirstUnits(s, n) == SubSeq(s, 1, IF Len(s) < n THEN Len(s) ELSE n)

\* The parsed value is an object with exactly the members timestamp, nonce,
\* data, algorithm and authority, its data the first 100 units of the input.
IsTokenObject(parsed, data) ==
  /\ parsed.ok
  /\ parsed.v.t = "object"
  /\ [i \in DOMAIN parsed.v.kids |-> parsed.v.kids[i].k]
       = << TimestampKey, NonceKey, DataKey, AlgorithmKey, AuthorityKey >>
  /\ \A i \in DOMAIN parsed.v.kids : parsed.v.kids[i].v.t = "string"
  /\ parsed.v.kids[3].v = JsString(FirstUnits(data, 100))

\* C15: the object encoded in every token createTimestamp makes has exactly
\* the fields timestamp, nonce, data, algorithm and authority, and its data
\* field is the first 100 units of the input, the whole input when that is
\* shorter.
C15_TokenFields ==
  (tsLast.op = "createTimestamp" /\ ~tsLast.raised)
    => IsTokenObject(ParsedBinary(Atob(tsLast.token)), tsLast.data)

C15_Witness ==
  /\ tsLast.op = "createTimestamp"
  /\ ~tsLast.raised
  /\ Len(tsLast.data) > 100
  /\ Len(ParsedBinary(Atob(tsLast.token)).v.kids[3].v.s) = 100

(***************************************************************************)
(* Properties of calculateHash                                             *)
(***************************************************************************)

\* The hex characters the digest of each algorithm has.
HexLength(algorithm) ==
  IF algorithm = Sha1Name THEN 40
  ELSE IF algorithm = Sha256Name THEN 64
  ELSE IF algorithm = Sha384Name THEN 96
  ELSE IF algorithm = Sha512Name THEN 128
  ELSE 32

\* C4: the hex string calculateHash returns has the length its algorithm
\* fixes: 40 characters for SHA-1, 64 for SHA-256, 96 for SHA-384, 128 for
\* SHA-512 and 32 for MD5.
C4_DigestLength ==
  (hashLast.op = "calculateHash" /\ ~hashLast.raised)
    => Len(hashLast.hash) = HexLength(hashLast.algorithm)

(***************************************************************************)
(* Properties of generateSelfSignedCert                                    *)
(***************************************************************************)

IsUpperHexDigit(c) == (c >= 48 /\ c <= 57) \/ (c >= 65 /\ c <= 70)

\* C6: the serialNumber of every record generateSelfSignedCert returns is a
\* string of uppercase hexadecimal digits that encodes at least 8 bytes,
\* that is, of at least 16 characters.
C6_SerialNumberLength ==
  (certLast.op = "generateSelfSignedCert" /\ ~certLast.raised)
    => /\ \A i \in DOMAIN certLast.cert.serialNumber :
            IsUpperHexDigit(certLast.cert.serialNumber[i])
       /\ Len(certLast.cert.serialNumber) >= 16

\* C12: for a positive validityDays the record generateSelfSignedCert
\* returns has its issuer equal to its subject, and its validTo exactly
\* validityDays days after its validFrom.
C12_ValidityPeriod ==
  (certLast.op = "generateSelfSignedCert" /\ certLast.days > 0 /\ ~certLast.raised)
    => /\ certLast.cert.issuer = certLast.subject
       /\ certLast.cert.subject = certLast.subject
       /\ ParseISO(certLast.cert.validFrom).ok
       /\ ParseISO(certLast.cert.validTo)
            = [ok |-> TRUE,
               v |-> AddDays(ParseISO(certLast.cert.validFrom).v, certLast.days)]

C12_Witness ==
  /\ certLast.op = "generateSelfSignedCert"
  /\ certLast.days = 30
  /\ certLast.subject = CommonNameA
  /\ ~certLast.raised
  /\ ParseISO(certLast.cert.validTo).v = AddDays(now, 30)

\* C13: generateSelfSignedCert fails with an error, and returns no record,
\* when the subject is empty or the key pair has no key material, and
\* succeeds in every other case.
C13_IssuanceFailsOnlyOnInvalidInput ==
  certLast.op = "generateSelfSignedCert"
    => (certLast.raised <=> (certLast.subject = << >> \/ certLast.pair = InvalidKeyPair))

(***************************************************************************)
(* Properties of CertificateManager                                        *)
(***************************************************************************)

\* The instant an ISO text of a record denotes.
DateOf(text) == ParseISO(text).v

\* C5: every certificate record in the store has validTo strictly later
\* than validFrom, whatever the validity input put into state and whatever
\* the sequence of generate and import operations.
C5_ValidToAfterValidFrom ==
  \A i \in DOMAIN certificates :
    Before(DateOf(certificates[i].info.validFrom), DateOf(certificates[i].info.validTo))

(***************************************************************************)
(* Properties of the export and import of keys                             *)
(***************************************************************************)

\* The latest call imported, as it was returned, the PEM text of a key of
\* the type the import is for.
ReimportedAs(op, type) ==
  /\ keyLast.op = op
  /\ keyLast.origin = "exported"
  /\ IndexOf(keyExported.pem, PemBegin(IF type = "public" THEN PublicKeyLabel
                                       ELSE PrivateKeyLabel)) = 1

\* C11: key round trip: importPublicKey on what exportPublicKey returned
\* and importPrivateKey on what exportPrivateKey returned succeed, for every
\* key size, and the keys they return are equivalent to the originals: what
\* the original private key signed verifies with the re-imported public key,
\* and what the re-imported private key signed verifies with the original
\* public key.
C11_KeyRoundTrip ==
  /\ ReimportedAs("importPublicKey", "public")
       => (~keyLast.raised /\ keyLast.result.type = "public")
  /\ ReimportedAs("importPrivateKey", "private")
       => (~keyLast.raised /\ keyLast.result.type = "private")
  /\ (keyLast.op = "signThenVerify" /\ keyLast.origin = "exported")
       => (~keyLast.raised /\ keyLast.value = TRUE)

C11_Witness ==
  /\ keyLast.op = "signThenVerify"
  /\ keyLast.origin = "exported"
  /\ keyLast.key.type = "private"
  /\ keyLast.key.modulusLength = 3072
  /\ keyLast.value = TRUE

\* The lines between the marker lines of a PEM text: what lies between the
\* line feed after the BEGIN marker and the line feed before the END marker.
PemBody(pem, label) ==
  SubSeq(pem, Len(PemBegin(label)) + 2, Len(pem) - Len(PemEnd(label)) - 1)

\* A text is lines of exactly 64 units joined by single line feeds, the last
\* line alone may be shorter and is not empty, and the lines together are
\* base64.
IsWrappedAt64(body, base64) ==
  /\ body # << >>
  /\ \A i \in DOMAIN body : (body[i] = 10) <=> (i % 65 = 0)
  /\ body[Len(body)] # 10
  /\ SelectSeq(body, LAMBDA c : c # 10) = base64

\* A text is the PEM text of a key's encoding under a label.
IsPemOf(pem, label, base64) ==
  /\ SubSeq(pem, 1, Len(PemBegin(label)) + 1) = PemBegin(label) \o << 10 >>
  /\ SubSeq(pem, Len(pem) - Len(PemEnd(label)), Len(pem)) = << 10 >> \o PemEnd(label)
  /\ IsWrappedAt64(PemBody(pem, label), base64)
  /\ PemContents(pem, label) = base64

\* The label and the format of the export that returned a text.
ExportedPublic == SubSeq(keyExported.pem, 12, 17) = Str(<< "P", "U", "B", "L", "I", "C" >>)

\* C21: the text an export returned is the BEGIN marker line, the base64 of
\* the binary key in lines of exactly 64 characters, of which only the last
\* may be shorter and none is empty, and the END marker line, joined by
\* single line feeds; without the markers and the white space it is the
\* base64 of the binary key.
C21_PemFormat ==
  keyExported.has
    => IF ExportedPublic
         THEN IsPemOf(keyExported.pem, PublicKeyLabel,
                      Btoa(Der("spki", keyExported.pair.publicKey.kid,
                               keyExported.pair.publicKey.modulusLength)).v)
         ELSE IsPemOf(keyExported.pem, PrivateKeyLabel,
                      Btoa(Der("pkcs8", keyExported.pair.privateKey.kid,
                               keyExported.pair.privateKey.modulusLength)).v)

\* exportPrivateKey has returned the text of a private key of 4096 bits.
C21_Witness ==
  /\ keyExported.has
  /\ ~ExportedPublic
  /\ keyExported.pair.privateKey.modulusLength = 4096
  /\ keyLast.op = "exportPrivateKey"
  /\ ~keyLast.raised

\* C16: keys are capability-tagged: a key importPublicKey returns is a
\* public key that can only verify, a key importPrivateKey returns is a
\* private key that can only sign, and signData with a key that lacks the
\* sign capability fails with an error instead of returning a result, as
\* verifySignature does with a key that lacks the verify capability.
C16_CapabilityTagged ==
  /\ (keyLast.op = "importPublicKey" /\ ~keyLast.raised)
       => (keyLast.result.type = "public" /\ keyLast.result.usages = {"verify"})
  /\ (keyLast.op = "importPrivateKey" /\ ~keyLast.raised)
       => (keyLast.result.type = "private" /\ keyLast.result.usages = {"sign"})
  /\ (keyLast.op = "signData" /\ "sign" \notin keyLast.key.usages) => keyLast.raised
  /\ (keyLast.op = "verifySignature" /\ "verify" \notin keyLast.key.usages)
       => keyLast.raised

C16_Witness ==
  /\ keyLast.op = "signData"
  /\ keyLast.key.type = "public"
  /\ keyLast.key.usages = {"verify"}
  /\ keyLast.raised

(***************************************************************************)
(* Properties of the status badges                                         *)
(***************************************************************************)

\* The status of a record at an instant: Expired when validTo is before it,
\* Expiring Soon when validTo is not before it but less than 30 days ahead,
\* Valid otherwise.
StatusAt(validTo, t) ==
  IF Before(ParseISO(validTo).v, t) THEN "Expired"
  ELSE IF Before(ParseISO(validTo).v, AddDays(t, 30)) THEN "Expiring Soon"
  ELSE "Valid"

\* C17: the displayed status is a function of the record's validTo and the
\* current time, and exactly one badge is displayed: Expired, Expiring Soon
\* or Valid as StatusAt says for the time of the rendering.
C17_ExactlyOneStatus ==
  statusLast.op = "render"
    => \/ statusLast.badges = {StatusAt(statusLast.validTo, statusLast.at)}
       \/ statusLast.badges = {StatusAt(statusLast.validTo, statusLast.last)}

(***************************************************************************)
(* Properties of the certificate store                                     *)
(***************************************************************************)

\* The store after the step is the store before it with one record, not in
\* it before, appended at its end.
AppendsOne ==
  /\ Len(certificates') = Len(certificates) + 1
  /\ SubSeq(certificates', 1, Len(certificates)) = certificates
  /\ \A i \in DOMAIN certificates : certificates[i].ref # certificates'[Len(certificates')].ref

\* The store after the step is the store before it without the record at
\* one index, the other records in their order.
RemovesOneAt(index) ==
  /\ Len(certificates') = Len(certificates) - 1
  /\ \A i \in DOMAIN certificates' :
       certificates'[i] = certificates[IF i < index THEN i ELSE i + 1]

\* A step of generateCertificate after its await that appends a record.
GenerateAppends == cmToast' = "Certificate Generated" /\ GenerateCertificateResolved

\* A step of generateCertificate after its await that ends in its catch.
GenerateFails == cmToast' = "Error" /\ (GenerateCertificateRejected \/ GenerateCertificateResolved)

\* A record of the store before the step is not in the store after it.
RecordLeaves ==
  \E i \in DOMAIN certificates :
    \A j \in DOMAIN certificates' : certificates'[j].ref # certificates[i].ref

C19_FailurePropagates ==
  /\ coreLast.failed => coreLast.raised /\ coreLast.result = << >>
  /\ (coreLast.op = "calculateHash" /\ coreLast.input[2] \notin RecognizedAlgorithms)
       => coreLast.raised /\ coreLast.result = << >>

\* calculateHash was called with an algorithm identifier it does not
\* recognize, the provider failed, and the call raised.
C19_Witness ==
  /\ coreLast.op = "calculateHash"
  /\ coreLast.input[2] \notin RecognizedAlgorithms
  /\ coreLast.failed
  /\ coreLast.raised

(***************************************************************************)
(* Properties of the comparison of hashes                                  *)
(***************************************************************************)

\* A text without its surrounding white space: the part t with s = l t r,
\* l and r white space only, t neither starting nor ending with white space.
IsTrimmed(s, t) ==
  \E a \in 0..Len(s), b \in 0..Len(s) :
    /\ a + b <= Len(s)
    /\ t = SubSeq(s, a + 1, Len(s) - b)
    /\ IsBlank(SubSeq(s, 1, a))
    /\ IsBlank(SubSeq(s, Len(s) - b + 1, Len(s)))
    /\ (t # << >> => ~IsSpace(t[1]) /\ ~IsSpace(t[Len(t)]))

\* Two texts are equal after trimming and lower-casing.
EqualNormalized(s, t) ==
  \E u \in { SubSeq(s, i, j) : i \in 1..(Len(s) + 1), j \in 0..Len(s) },
     w \in { SubSeq(t, i, j) : i \in 1..(Len(t) + 1), j \in 0..Len(t) } :
    /\ IsTrimmed(s, u)
    /\ IsTrimmed(t, w)
    /\ ToLowerCase(u) = ToLowerCase(w)

AB12 == Str(<< "A", "B", "1", "2" >>)

\* C20: a comparison of two non-blank texts results in true exactly when
\* the texts are equal after trimming and lower-casing; the comparison of the
\* two texts in the other order results in the same; the comparison of AB12
\* and ab12 results in true.
C20_CompareCaseInsensitive ==
  compareLast.op = "compareHashes"
    => /\ compareLast.result = EqualNormalized(compareLast.hash1, compareLast.hash2)
       /\ comparisonResult = Comparison(FALSE, compareLast.result)
       /\ compareLast.result = HashesMatch(compareLast.hash2, compareLast.hash1)
       /\ (compareLast.hash1 = AB12 /\ compareLast.hash2 = ToLowerCase(AB12))
            => compareLast.result

\* AB12 and ab12 have been compared, with the result true.
C20_Witness ==
  /\ compareLast.op = "compareHashes"
  /\ compareLast.hash1 = AB12
  /\ compareLast.hash2 = Str(<< "a", "b", "1", "2" >>)
  /\ compareLast.result

\* The record a step appended to the store.
Appended == certificates'[Len(certificates')].info

\* A record is the stub of an import at the current time: the fixed subject
\* and issuer, valid from now, valid to 365 days after an instant the
\* handler read, which is now or the millisecond after.
IsImportStub(cert) ==
  /\ cert.subject = Str(<< "I", "m", "p", "o", "r", "t", "e", "d", " ", "C", "e", "r",
                           "t", "i", "f", "i", "c", "a", "t", "e" >>)
  /\ cert.issuer = Str(<< "E", "x", "t", "e", "r", "n", "a", "l", " ", "C", "A" >>)
  /\ cert.validFrom = ToISOString(now).v
  /\ \E lag \in {0, 1} : cert.validTo = ToISOString(AddDays(AddMs(now, lag), 365)).v

KmSettled == kmGenerating.stage = "none" /\ ~kmImporting.active

\* The key a displayed text encodes, as the imports read it.
DisplayedPublicKey == importPublicKey(publicKeyPem)
DisplayedPrivateKey == importPrivateKey(privateKeyPem)

\* The two keys are the halves of the held key pair.
HalvesOfHeldPair(publicKey, privateKey) ==
  /\ publicKey.ok /\ privateKey.ok
  /\ publicKey.v.kid = privateKey.v.kid
  /\ kmKeyPair.publicKey.kid = publicKey.v.kid
  /\ kmKeyPair.privateKey.kid = privateKey.v.kid

\* C23: once the operations have settled, a displayed public key text and a
\* displayed private key text are the two halves of one key pair, the one
\* held in keyPair.
C23_DisplayedPairIsHeld ==
  (KmSettled /\ publicKeyPem # << >> /\ privateKeyPem # << >>)
    => HalvesOfHeldPair(DisplayedPublicKey, DisplayedPrivateKey)

\* C29: the key size shown next to the displayed public key is the size of
\* the key whose text is displayed.
C29_ShownKeySize ==
  (KmSettled /\ publicKeyPem # << >>)
    => DisplayedPublicKey.ok /\ DisplayedPublicKey.v.modulusLength = kmKeySize

(***************************************************************************)
(* Properties of the selection in CertificateManager                       *)
(***************************************************************************)

\* The selected certificate is a record of the store.
SelectedInStore == \E i \in DOMAIN certificates : certificates[i] = selectedCert

\* C24: the selected certificate is null or a record that is in the store,
\* and a step of deleteCertificate on the selected record clears the
\* selection.
C24_SelectionInStore ==
  /\ [](selectedCert = Null \/ SelectedInStore)
  /\ [][\A index \in DOMAIN certificates :
          (DeleteCertificateAt(index) /\ certificates[index] = selectedCert)
            => selectedCert' = Null]_vars

\* Of two records the second, which was selected when it was created, has
\* been deleted, and nothing is selected.
C24_Witness ==
  /\ cmObjects = 2
  /\ Len(certificates) = 1
  /\ certificates[1].ref = 1
  /\ cmToast = "Certificate Deleted"
  /\ selectedCert = Null

(***************************************************************************)
(* Properties of the verification form of SignatureOperations              *)
(***************************************************************************)

\* The core returns true for the document and the signature text with the
\* key that importPublicKey returned as imported.
VerifiesWithImported(document, signature, imported) ==
  /\ imported.ok
  /\ verifySignature(Text(document), signature, imported.v).ok
  /\ verifySignature(Text(document), signature, imported.v).v

\* importPublicKey and then verifySignature of the core return true for the
\* three texts.
CoreVerifies(document, signature, pem) ==
  VerifiesWithImported(document, signature, importPublicKey(pem))

\* C25: while VERIFIED is displayed, the document, the signature and the
\* public key in the verification form are ones for which the core returns
\* true.
C25_VerifiedIsCurrent ==
  (~verificationResult.isNull /\ verificationResult.v)
    => CoreVerifies(verificationDocument, verificationSignature, soPublicKeyPem)

\* A step in which a verification attempt ends.
VerificationEnds == soPending.op = "verify" /\ soPending'.op = "none"

\* C26: a verification attempt ends with the displayed result true or
\* false, and true only when the core returned true for the three texts of
\* the attempt: an import failure, an undecodable signature or a provider
\* error ends with false.
C26_AttemptEndsDecided ==
  [][VerificationEnds
       => /\ ~verificationResult'.isNull
          /\ verificationResult'.v
               = CoreVerifies(soPending.document, soPending.signature, soPending.pem)]_vars

\* An attempt with a signature text that cannot be decoded has ended: the
\* error was shown and the displayed result is false.
C26_Witness ==
  /\ ~soIsProcessing
  /\ soToast = "Verification Failed"
  /\ verificationResult = [isNull |-> FALSE, v |-> FALSE]
  /\ verificationSignature = Str(<< "!", "!", "!" >>)
  /\ importPublicKey(soPublicKeyPem).ok

(***************************************************************************)
(* Properties of the result list of HashCalculator                         *)
(***************************************************************************)

\* No two entries of the list are for one algorithm.
OnePerAlgorithm(results) ==
  \A i, j \in DOMAIN results : results[i].algorithm = results[j].algorithm => i = j

\* A step in which a calculateHash() of the component ends with success.
CalculateHashSucceeds ==
  /\ hcPending.op = "one"
  /\ hcPending'.op = "none"
  /\ hcToast' = "Hash Calculated"

\* C28: the result list holds at most one entry per algorithm, and a
\* calculateHash() that succeeds leaves first in the list the entry of its
\* algorithm, which holds the hash the core returns for the text and the
\* algorithm of the call.
C28_OneResultPerAlgorithm ==
  /\ [] OnePerAlgorithm(hashResults)
  /\ [][CalculateHashSucceeds
          => /\ hashResults'[1].algorithm = hcPending.algorithm
             /\ hashResults'[1].hash
                  = calculateHash(Text(hcPending.text), hcPending.algorithm).v]_vars

\* After calculateAllHashes, a calculateHash() of another text has replaced
\* the entry of its algorithm and put it first; the list still has an entry
\* for each of the five algorithms.
C28_Witness ==
  /\ Len(hashResults) = 5
  /\ hcToast = "Hash Calculated"
  /\ hashResults[1].algorithm = Md5Name
  /\ hashResults[1].hash = calculateHash(Text(Str(<< "b" >>)), Md5Name).v
  /\ hashResults[2].hash = calculateHash(Text(Str(<< "a" >>)), Sha1Name).v

(***************************************************************************)
(* Properties of the history of TimestampService                           *)
(***************************************************************************)

\* The record's timestamp and authority are the ones of the verdict.
RecordMatchesVerdict(record, verdict) ==
  /\ verdict.valid
  /\ verdict.timestamp = JsString(record.timestamp)
  /\ verdict.authority = JsString(record.authority)

\* Text a is not before text b in the order of their code units.
NotBefore(a, b) ==
  \/ a = b
  \/ \E i \in 1..Len(b) :
       /\ i <= Len(a)
       /\ SubSeq(a, 1, i - 1) = SubSeq(b, 1, i - 1)
       /\ a[i] > b[i]

\* C30: the timestamp and the authority of every record of the history are
\* the ones verifyTimestamp reports for the record's token, and no record
\* is older than a record after it.
C30_RecordsMatchTokens ==
  /\ \A i \in DOMAIN timestamps :
       RecordMatchesVerdict(timestamps[i], verifyTimestamp(timestamps[i].token))
  /\ \A i, j \in DOMAIN timestamps :
       i < j => NotBefore(timestamps[i].timestamp, timestamps[j].timestamp)

(***************************************************************************)
(* Properties of the busy flags of the components                          *)
(***************************************************************************)

\* C27: a busy flag that an operation has set is eventually cleared, the
\* operation having succeeded or failed.
C27_BusyFlagCleared ==
  /\ kmIsGenerating ~> ~kmIsGenerating
  /\ cmIsGenerating ~> ~cmIsGenerating
  /\ soIsProcessing ~> ~soIsProcessing
  /\ hcIsProcessing ~> ~hcIsProcessing
  /\ tcIsProcessing ~> ~tcIsProcessing

\* A signing has failed in the import of the private key, and the busy flag
\* of SignatureOperations is clear.
C27_Witness ==
  /\ soToast = "Signature Failed"
  /\ ~soIsProcessing
  /\ soPending = NotProcessing

====
